---- MODULE Spec2Model ----
(***************************************************************************)
(* A model of rabot's WordReference lookup: the similarity engine of       *)
(* cogs/wordref/longest.py, the Entry container of cogs/wordref/entry.py,  *)
(* the scraper of cogs/wordref/wordref.py and the command template of      *)
(* main.py.                                                                *)
(*                                                                         *)
(* A Python str is a sequence of characters; a character is a TLA+ string  *)
(* naming one code point ("alpha" is U+03B1, "tonos" the combining acute   *)
(* accent U+0301, "a" is U+0061).                                          *)
(***************************************************************************)
EXTENDS Integers, Sequences, FiniteSets, TLC

VARIABLES
    arg_a, arg_b, ret,                  \* a call of lcs / get_delta
    hl_sentence, hl_synonyms, hl_ret,   \* a call of highlight_synonyms
    te_self, te_page, te_out,           \* a call of Wordref.try_fetch_embed
    \* a run of the command handler templ_wordref:
    tw_cmd,         \* the command and the arguments it gives
    tw_pc,          \* the statement the handler is at
    tw_word,        \* the local variable word
    tw_wordref,     \* the local variable wordref
    tw_page,        \* the page the last request got
    tw_tries,       \* what try_fetch_embed returned, call by call, in the
                    \* call of fetch_embed under way or last finished
    tw_embed,       \* the local variable wordref_embed
    tw_first,       \* how the first call of fetch_embed ended
    tw_lookups,     \* calls of fetch_embed begun
    tw_fixes,       \* calls of fix_greek_spelling begun
    tw_response,    \* the message sent
    tw_exc,         \* the exception that ended the handler
    tw_entry,       \* the entry the last try_fetch_embed built
    \* the swap of Entry.get_embed applied to an entry:
    inv_orig,       \* the entry try_fetch_entry returned
    inv_entry,      \* the entry now
    inv_steps,      \* times the swap was applied
    \* the "while True" loop of parse_words, run on a text and then on its
    \* result:
    pw_input,       \* the argument of the first call
    pw_attributes,  \* the local variable attributes
    pw_text,        \* the local variable text
    pw_pc,          \* "loop" inside the loop, "done" after the break
    pw_passes,      \* passes of the loop made in this call
    pw_round,       \* 1 in the first call, 2 in the call on its result
    pw_first,       \* the text the first call ended with
    \* the command handler forvo of main.py:
    fv_word,        \* the local variable word
    fv_pc,          \* the statement the handler is at
    fv_lookups,     \* the calls of get_pronunciation made: word, response of
                    \* forvo.com, exception
    fv_fixes,       \* calls of fix_greek_spelling made
    fv_result,      \* (message, audio_file) of the last get_pronunciation
    fv_responses,   \* the messages sent with inter.response.send_message
    fv_exc,         \* the exception that ended the handler
    \* two calls of Wordref.try_fetch_embed under way at once:
    cq_heap,        \* the sets and lists allocated, by address
    cq_task,        \* of each call: its position, its Wordref, the page it
                    \* got, its Entry (with the addresses of its sets and
                    \* its list), and what it raised or returned
    \* a call of Entry.get_embed:
    rd_entry,       \* the entry before the call
    rd_out,         \* the exception, the entry afterwards and the embed
    \* a call of get_forvo_pronunciation_audio:
    fs_fv,          \* the Forvo object
    fs_pc,          \* the statement the call is at
    fs_gets,        \* the status of every GET of Forvo.fetch_soup so far
    fs_soup,        \* self.soup, once set
    fs_exc,         \* the exception that ended the call
    \* a call of fetch_conjugation:
    cj_word,        \* the argument word
    cj_site,        \* the page el.wiktionary.org has for every word
    cj_pc,          \* the statement the call is at
    cj_fetched,     \* the words of the GETs made so far
    cj_valid,       \* the part of valid_suggestions the loop has yet to reach
    cj_result,      \* what the call returned or raised
    \* a call of _parse_conjugation_table_one:
    vt_query,       \* the query, with the page parsed
    vt_out,         \* the dict returned, or the exception
    \* a Pagination view and the client that shows it:
    pg_n,           \* len(list_contents), what get_page returns as total
    pg_index,       \* self.index
    pg_total_pages, \* self.total_pages
    pg_disabled,    \* children[0].disabled and children[1].disabled
    pg_flight,      \* the messages sent and not yet shown: of each whether
                    \* it has the view, and the view's disabled flags then
    pg_client,      \* the message the user sees
    pg_gets,        \* the arguments get_page was called with
    pg_exc,         \* the exceptions that ended callbacks
    \* Wordref.try_fetch_entry scanning the tables of a page row by row:
    sc_self,        \* the Wordref
    sc_page,        \* the page
    sc_table,       \* the table the "for res in" loop is at
    sc_row,         \* rows of it try_fetch_word has scanned
    sc_entry        \* the entry

lcs_vars == <<arg_a, arg_b, ret>>
hl_vars == <<hl_sentence, hl_synonyms, hl_ret>>
te_vars == <<te_self, te_page, te_out>>
tw_vars == <<tw_cmd, tw_pc, tw_word, tw_wordref, tw_page, tw_tries, tw_embed,
             tw_first, tw_lookups, tw_fixes, tw_response, tw_exc, tw_entry>>
inv_vars == <<inv_orig, inv_entry, inv_steps>>
old_vars == <<lcs_vars, hl_vars, te_vars, tw_vars>>
pw_vars == <<pw_input, pw_attributes, pw_text, pw_pc, pw_passes, pw_round,
             pw_first>>
fv_vars == <<fv_word, fv_pc, fv_lookups, fv_fixes, fv_result, fv_responses,
             fv_exc>>
cq_vars == <<cq_heap, cq_task>>
early_vars == <<old_vars, inv_vars, pw_vars, fv_vars, cq_vars>>
rd_vars == <<rd_entry, rd_out>>
fs_vars == <<fs_fv, fs_pc, fs_gets, fs_soup, fs_exc>>
cj_vars == <<cj_word, cj_site, cj_pc, cj_fetched, cj_valid, cj_result>>
vt_vars == <<vt_query, vt_out>>
pg_vars == <<pg_n, pg_index, pg_total_pages, pg_disabled, pg_flight,
             pg_client, pg_gets, pg_exc>>
sc_vars == <<sc_self, sc_page, sc_table, sc_row, sc_entry>>
late_vars == <<rd_vars, fs_vars, cj_vars, vt_vars, pg_vars, sc_vars>>
rd_others == <<early_vars, fs_vars, cj_vars, vt_vars, pg_vars, sc_vars>>
fs_others == <<early_vars, rd_vars, cj_vars, vt_vars, pg_vars, sc_vars>>
cj_others == <<early_vars, rd_vars, fs_vars, vt_vars, pg_vars, sc_vars>>
vt_others == <<early_vars, rd_vars, fs_vars, cj_vars, pg_vars, sc_vars>>
pg_others == <<early_vars, rd_vars, fs_vars, cj_vars, vt_vars, sc_vars>>
sc_others == <<early_vars, rd_vars, fs_vars, cj_vars, vt_vars, pg_vars>>
more_vars == <<inv_vars, pw_vars, fv_vars, cq_vars, late_vars>>
vars == <<old_vars, more_vars>>

-----------------------------------------------------------------------------
(* Bounds *)

\* longest word handed to lcs / get_delta
MaxWordLen == 3
\* longest sentence handed to highlight_synonyms
MaxSentenceLen == 4
\* longest synonym and largest synonym set handed to highlight_synonyms
MaxSynonymLen == 2
MaxSynonyms == 2
\* length of the run of full stops that pads a long example sentence
DotsRun == 942
\* most rows and most tables of a fetched page
MaxRows == 3
MaxTables == 2
\* most applications of the swap to one entry
MaxSwaps == 3
\* most pages of a paginated answer, and most button clicks on it
MaxContents == 3
MaxClicks == 4
\* most NavFrames of a wiktionary page
MaxFrames == 3
\* most links to suggested words on a wiktionary page
MaxSuggestions == 2
\* most pieces a text handed to parse_words is made of
MaxPieces == 4
\* most <li> elements of the pronunciation lists of a Forvo page
MaxItems == 2

-----------------------------------------------------------------------------
(* Python str primitives *)

Max(x, y) == IF x >= y THEN x ELSE y

\* s[:i]
Prefix(s, i) == SubSeq(s, 1, IF i <= Len(s) THEN i ELSE Len(s))

\* s[i:]
Drop(s, i) == SubSeq(s, i + 1, Len(s))

\* s in t
IsSubstr(s, t) ==
    \E k \in 0..(Len(t) - Len(s)) : SubSeq(t, k + 1, k + Len(s)) = s

\* s.replace(old, new)
RECURSIVE Replace(_, _, _)
Replace(s, old, new) ==
    IF old = <<>>
    THEN (IF s = <<>> THEN new
          ELSE new \o <<Head(s)>> \o Replace(Tail(s), old, new))
    ELSE IF Len(s) < Len(old) THEN s
    ELSE IF SubSeq(s, 1, Len(old)) = old
         THEN new \o Replace(Drop(s, Len(old)), old, new)
         ELSE <<Head(s)>> \o Replace(Tail(s), old, new)

\* str.isspace() of one character
IsSpace(c) == c = " "

\* s.split(): the maximal runs of non-whitespace characters, in order
RECURSIVE SplitFrom(_, _)
SplitFrom(s, cur) ==
    IF s = <<>> THEN (IF cur = <<>> THEN <<>> ELSE <<cur>>)
    ELSE IF IsSpace(Head(s))
         THEN (IF cur = <<>> THEN <<>> ELSE <<cur>>) \o SplitFrom(Tail(s), <<>>)
         ELSE SplitFrom(Tail(s), Append(cur, Head(s)))

Split(s) == SplitFrom(s, <<>>)

\* s.strip()
RECURSIVE LStrip(_)
LStrip(s) == IF s # <<>> /\ IsSpace(Head(s)) THEN LStrip(Tail(s)) ELSE s

RECURSIVE RStrip(_)
RStrip(s) ==
    IF s # <<>> /\ IsSpace(s[Len(s)]) THEN RStrip(SubSeq(s, 1, Len(s) - 1))
    ELSE s

Strip(s) == RStrip(LStrip(s))

\* s.strip(",")
RECURSIVE StripCommas(_)
StripCommas(s) ==
    IF s # <<>> /\ Head(s) = "," THEN StripCommas(Tail(s))
    ELSE IF s # <<>> /\ s[Len(s)] = ","
    THEN StripCommas(SubSeq(s, 1, Len(s) - 1))
    ELSE s

\* s.endswith(suffix)
EndsWith(s, suffix) ==
    /\ Len(suffix) <= Len(s)
    /\ SubSeq(s, Len(s) - Len(suffix) + 1, Len(s)) = suffix

\* s.split(sep) for a non-empty separator: empty pieces are kept
RECURSIVE SplitOnFrom(_, _, _)
SplitOnFrom(s, sep, cur) ==
    IF s = <<>> THEN <<cur>>
    ELSE IF Len(s) >= Len(sep) /\ SubSeq(s, 1, Len(sep)) = sep
         THEN <<cur>> \o SplitOnFrom(Drop(s, Len(sep)), sep, <<>>)
         ELSE SplitOnFrom(Tail(s), sep, Append(cur, Head(s)))

SplitOn(s, sep) == SplitOnFrom(s, sep, <<>>)

\* set(seq)
Range(seq) == { seq[i] : i \in DOMAIN seq }

\* all strings over alphabet of length at most n
StringsUpTo(alphabet, n) == UNION { [1..k -> alphabet] : k \in 0..n }

-----------------------------------------------------------------------------
(* Unicode data used by normalize_greek_word *)

\* unicodedata.normalize("NFKD", c) of one character
Decompose(c) ==
    CASE c = "alpha_tonos" -> <<"alpha", "tonos">>
      [] c = "Alpha_tonos" -> <<"Alpha", "tonos">>
      [] c = "epsilon_tonos" -> <<"epsilon", "tonos">>
      [] c = "eta_tonos" -> <<"eta", "tonos">>
      [] c = "iota_tonos" -> <<"iota", "tonos">>
      [] c = "omicron_tonos" -> <<"omicron", "tonos">>
      [] OTHER -> <<c>>

\* str.casefold() of one character
Casefold(c) ==
    CASE c = "Alpha" -> "alpha"
      [] c = "Alpha_tonos" -> "alpha_tonos"
      [] c = "Lambda" -> "lambda"
      [] c = "final_sigma" -> "sigma"
      [] c = "A" -> "a"
      [] c = "B" -> "b"
      [] OTHER -> c

\* unicodedata.combining(c) != 0
Combining(c) == c = "tonos"

RECURSIVE NFKD(_)
NFKD(s) == IF s = <<>> THEN <<>> ELSE Decompose(Head(s)) \o NFKD(Tail(s))

RECURSIVE CasefoldStr(_)
CasefoldStr(s) ==
    IF s = <<>> THEN <<>> ELSE <<Casefold(Head(s))>> \o CasefoldStr(Tail(s))

RECURSIVE StripCombining(_)
StripCombining(s) ==
    IF s = <<>> THEN <<>>
    ELSE (IF Combining(Head(s)) THEN <<>> ELSE <<Head(s)>>)
         \o StripCombining(Tail(s))

-----------------------------------------------------------------------------
(* cogs/wordref/longest.py *)

\* the inner "while True" loop of lcs: the final value of i
RECURSIVE lcs_scan(_, _, _)
lcs_scan(a, b, i) ==
    IF IsSubstr(Prefix(a, i), b) /\ i < Len(a)
    THEN lcs_scan(a, b, i + 1)
    ELSE i

\* the outer "while a" loop of lcs
RECURSIVE lcs_loop(_, _, _)
lcs_loop(a, b, var) ==
    IF a = <<>> THEN var
    ELSE LET i == lcs_scan(a, b, 1)
         IN  lcs_loop(Drop(a, i), b, Max(i - 1, var))

\* lcs without the "if a == b" shortcut
lcs_no_shortcut(a, b) == lcs_loop(a, b, 0)

lcs(a, b) == IF a = b THEN Len(a) ELSE lcs_loop(a, b, 0)

\* normalize_greek_word that strips the accents but forgets casefold()
normalize_no_casefold(word) == StripCombining(NFKD(word))

normalize_greek_word(word) == StripCombining(CasefoldStr(NFKD(word)))

\* get_delta returns the float (max_length - m) / max_length, kept here as
\* the exact fraction num / den, or raises ZeroDivisionError
get_delta(a, b) ==
    LET aa == normalize_greek_word(a)
        bb == normalize_greek_word(b)
        max_length == Max(Len(aa), Len(bb))
        m == Max(lcs(aa, bb), lcs(bb, aa))
    IN  IF max_length = 0
        THEN [raised |-> "ZeroDivisionError", num |-> 0, den |-> 0]
        ELSE [raised |-> "", num |-> max_length - m, den |-> max_length]

\* "dif <= 0.3" for a float dif = num / den: the rounded quotient of two
\* small integers is <= the double 0.3 exactly when num / den <= 3 / 10
DeltaAtMostThreshold(d) == 10 * d.num <= 3 * d.den

\* re.sub(r"\(|\)|,|\.|", "", word); "dots" is a run of full stops
RECURSIVE StripPunctuation(_)
StripPunctuation(word) ==
    IF word = <<>> THEN <<>>
    ELSE (IF Head(word) \in {"(", ")", ",", ".", "dots"} THEN <<>>
          ELSE <<Head(word)>>)
         \o StripPunctuation(Tail(word))

Emphasis(word) == <<"*", "*">> \o word \o <<"*", "*">>

\* the "for reference in synonyms" loop for one word, over every iteration
\* order of the set: the set of its outcomes
RECURSIVE MatchOutcomes(_, _)
MatchOutcomes(word, references) ==
    IF references = {} THEN {"no_match"}
    ELSE UNION { LET dif == get_delta(word, reference)
                 IN  IF dif.raised # "" THEN {dif.raised}
                     ELSE IF DeltaAtMostThreshold(dif) THEN {"match"}
                     ELSE MatchOutcomes(word, references \ {reference})
                 : reference \in references }

\* the "for word in set(sentence.split())" loop over the words left, over
\* every iteration order of the set: the set of its outcomes
RECURSIVE highlight_loop(_, _, _)
highlight_loop(sentence, words, synonyms) ==
    IF words = {} THEN {[raised |-> "", value |-> sentence]}
    ELSE UNION { LET word == StripPunctuation(w)
                     rest == words \ {w}
                 IN  UNION { CASE o = "match" ->
                                    highlight_loop(
                                        Replace(sentence, word, Emphasis(word)),
                                        rest, synonyms)
                               [] o = "no_match" ->
                                    highlight_loop(sentence, rest, synonyms)
                               [] OTHER -> {[raised |-> o, value |-> <<>>]}
                             : o \in MatchOutcomes(word, synonyms) }
                 : w \in words }

\* highlight_synonyms(sentence, synonyms): the set of results the iteration
\* orders of the two sets allow
highlight_synonyms(sentence, synonyms) ==
    highlight_loop(sentence, Range(Split(sentence)), synonyms)

-----------------------------------------------------------------------------
(* Values shared by the scraper and the Entry container *)

\* an Optional[str]: Python's None, or a str
None == [some |-> FALSE, val |-> <<>>]
Some(s) == [some |-> TRUE, val |-> s]

\* bool(x) of an Optional[str]
Truthy(o) == o.some /\ o.val # <<>>

\* every list(S) of a set S: the iteration order of a set is arbitrary
RECURSIVE Orderings(_)
Orderings(S) ==
    IF S = {} THEN {<<>>}
    ELSE UNION { { <<x>> \o rest : rest \in Orderings(S \ {x}) } : x \in S }

\* One character stands for the whole notice WordReference prints for a
\* missing translation, "Αυτή η πρόταση δεν είναι μετάφραση της αγγλικής
\* πρότασης.", and one for a run of DotsRun full stops; every other
\* character is one code point.
CharLen(c) ==
    CASE c = "not_translation" -> 57
      [] c = "dots" -> DotsRun
      [] OTHER -> 1

\* len(s), summed by halves
RECURSIVE StrLen(_)
StrLen(s) ==
    IF s = <<>> THEN 0
    ELSE IF Len(s) = 1 THEN CharLen(s[1])
    ELSE LET half == Len(s) \div 2
         IN  StrLen(SubSeq(s, 1, half)) + StrLen(SubSeq(s, half + 1, Len(s)))

-----------------------------------------------------------------------------
(* utils.py *)

\* the modelled characters whose code point is 200 or more
NonLatin ==
    {"Alpha_tonos", "Alpha", "Lambda", "alpha_tonos", "epsilon_tonos",
     "eta_tonos", "iota_tonos", "omicron_tonos", "alpha", "gamma", "delta",
     "epsilon", "eta", "theta", "iota", "kappa", "lambda", "mu", "nu",
     "omicron", "pi", "rho", "final_sigma", "sigma", "tau", "upsilon", "phi",
     "omega", "tonos", "bullet", "not_translation"}

is_english(word) == \A i \in DOMAIN word : word[i] \notin NonLatin

-----------------------------------------------------------------------------
(* cogs/wordref/wordref.py *)

\* the keys of the dict ATTRIBUTES_EL, in insertion order
ATTRIBUTES_EL ==
    << <<"epsilon", "pi", "iota_tonos", "theta">>,
       <<"epsilon", "pi", "iota_tonos", "theta", " ",
         "alpha_tonos", "kappa", "lambda">>,
       <<"phi", "rho", " ", "omega", "final_sigma">>,
       <<"omicron", "upsilon", "sigma", " ", "omicron", "upsilon", "delta">>,
       <<"omicron", "upsilon", "sigma", " ", "alpha", "rho", "sigma">>,
       <<"omicron", "upsilon", "sigma", " ", "theta", "eta", "lambda">>,
       <<"rho", " ", "epsilon_tonos", "kappa", "phi", "rho">>,
       <<"rho", " ", "alpha", "mu", " ", "+", " ",
         "epsilon", "pi", "iota_tonos", "rho">>,
       <<"rho", " ", "alpha", "mu">>,
       <<"rho", " ", "mu", " ", "+", " ",
         "pi", "rho", "omicron_tonos", "theta">>,
       <<"rho", " ", "mu">>,
       <<"epsilon_tonos", "kappa", "phi", "rho">>,
       <<"pi", "epsilon", "rho", "iota_tonos", "phi", "rho">> >>

\* the set ATTRIBUTES_EN, listed in one order: no element is a suffix of
\* another, so the text parse_words returns is the same for every iteration
\* order of the set
ATTRIBUTES_EN ==
    << <<"a", "d", "j">>,
       <<"a", "d", "v">>,
       <<" ", "n">>,
       <<"v", " ", "e", "x", "p", "r">>,
       <<"v", "i">>,
       <<"v", "t", "r", " ", "p", "h", "r", "a", "s", "a", "l", " ",
         "s", "e", "p">>,
       <<"v", "t", "r", " ", "+", " ", "p", "r", "e", "p">>,
       <<"v", "t", "r">> >>

\* re.sub(re.escape(att) + r"$", "", text)
SubSuffix(text, att) ==
    IF att # <<>> /\ EndsWith(text, att)
    THEN SubSeq(text, 1, Len(text) - Len(att))
    ELSE text

\* the "for att in attributes" loop of parse_words, from attribute k on
\* (the text is computed attribute by attribute: Len(stripped) is asked
\* before the next round)
RECURSIVE strip_attributes(_, _, _)
strip_attributes(text, attributes, k) ==
    IF k > Len(attributes) THEN text
    ELSE LET stripped == SubSuffix(SubSuffix(text, attributes[k]), <<"+">>)
         IN  IF Len(stripped) >= 0
             THEN strip_attributes(stripped, attributes, k + 1)
             ELSE text

\* one pass of the "while True" loop of parse_words: the strip and the
\* "for att in attributes" loop
strip_pass(text, attributes) == strip_attributes(Strip(text), attributes, 1)

\* a loop that breaks after its first pass
loop_exits_after_first_pass(original_text, text) == TRUE

\* "if original_text == text: break"
loop_exits(original_text, text) == original_text = text

\* the list parse_words chooses for a text
attributes_of(text) ==
    IF is_english(text) THEN ATTRIBUTES_EN ELSE ATTRIBUTES_EL

\* the "while True" loop of parse_words
RECURSIVE parse_words_loop(_, _)
parse_words_loop(text, attributes) ==
    LET stripped == strip_attributes(Strip(text), attributes, 1)
    IN  IF stripped = text THEN text
        ELSE parse_words_loop(stripped, attributes)

parse_words(text) ==
    LET attributes == IF is_english(text) THEN ATTRIBUTES_EN
                      ELSE ATTRIBUTES_EL
    IN  SplitOn(parse_words_loop(text, attributes), <<",", " ">>)

\* A parsed page: the <table class="WRD"> elements in document order, each
\* the sequence of its <tr class="even"> / <tr class="odd"> rows, each row
\* with its <td class="FrWrd">, "ToWrd", "FrEx" and "ToEx" cells.
NoCell == [present |-> FALSE, has_strong |-> FALSE, strong |-> <<>>,
           rest |-> <<>>]

\* a cell whose text is s
Cell(s) == [present |-> TRUE, has_strong |-> FALSE, strong |-> <<>>,
            rest |-> s]

\* a cell <td><strong>s</strong>rest</td>
StrongCell(s, rest) == [present |-> TRUE, has_strong |-> TRUE, strong |-> s,
                        rest |-> rest]

\* cell.text
CellText(cell) == cell.strong \o cell.rest

BASE_URL ==
    <<"h", "t", "t", "p", "s", ":", "/", "/", "w", "w", "w", ".", "w", "o",
      "r", "d", "r", "e", "f", "e", "r", "e", "n", "c", "e", ".", "c", "o",
      "m">>

NOT_TRANSLATION == <<"not_translation">>

\* Wordref.__init__ (the url only selects the page the site serves)
Wordref(word, gr_en, hide_words, min_sentences_shown, max_sentences_shown) ==
    [word |-> IF word.some THEN Some(Strip(word.val)) ELSE None,
     is_random |-> ~word.some,
     gr_en |-> gr_en,
     hide_words |-> hide_words,
     min_sentences_shown |-> min_sentences_shown,
     max_sentences_shown |-> max_sentences_shown,
     max_random_iterations |-> 5]

NoEmbed == [some |-> FALSE, title |-> <<>>, url |-> <<>>,
            description |-> <<>>, footer |-> <<>>]

\* Entry.__init__ and Entry.__post_init__
Entry(link, gr_word, gr_en, hide_words, min_shown, max_shown, is_random) ==
    [link |-> link,
     gr_word |-> gr_word,
     gr_en |-> gr_en,
     hide_words |-> hide_words,
     min_sentences_shown |-> min_shown,
     max_sentences_shown |-> max_shown,
     is_random |-> is_random,
     en_word |-> None,
     gr_synonyms |-> {},
     en_synonyms |-> {},
     sentences |-> <<>>,
     gr_pos |-> None,
     embed |-> NoEmbed]

\* rows[i] for the first i with rows[i].cls = cls, as a sequence of 0 or 1 row
RECURSIVE FindRow(_, _)
FindRow(rows, cls) ==
    IF rows = <<>> THEN <<>>
    ELSE IF Head(rows).cls = cls THEN <<Head(rows)>>
    ELSE FindRow(Tail(rows), cls)

\* Wordref.fetch_accented_word: the word, or the exception it re-raises
fetch_accented_word(soup) ==
    LET wrd == soup.tables
        tr == IF wrd = <<>> THEN <<>> ELSE FindRow(Head(wrd), "even")
    IN  IF wrd = <<>> \/ tr = <<>>
        THEN [raised |-> "AttributeError", word |-> <<>>]
        ELSE LET fr_wrd == tr[1].FrWrd
             IN  IF ~fr_wrd.present \/ ~fr_wrd.has_strong
                 THEN [raised |-> "AttributeError", word |-> <<>>]
                 ELSE IF Split(fr_wrd.strong) = <<>>
                 THEN [raised |-> "IndexError", word |-> <<>>]
                 ELSE [raised |-> "", word |-> Split(fr_wrd.strong)[1]]

\* the loop body with entry.en_word assigned at every row
try_fetch_word_item_reassigning(item, entry) ==
    IF ~item.FrWrd.present \/ ~item.ToWrd.present THEN entry
    ELSE
    LET swap == is_english(CellText(item.FrWrd))
        en_text == IF swap THEN CellText(item.FrWrd) ELSE CellText(item.ToWrd)
        gr_text == IF swap THEN CellText(item.ToWrd) ELSE CellText(item.FrWrd)
        gr_pos == Strip(Replace(gr_text, entry.gr_word.val, <<>>))
        new_pos ==
            IF /\ ~entry.gr_pos.some
               /\ Truthy(entry.gr_word)
               /\ Len(Split(gr_text)) > 1
               /\ IsSubstr(entry.gr_word.val, gr_text)
            THEN (IF IsSubstr(<<",">>, gr_pos) THEN Some(<<>>)
                  ELSE Some(gr_pos))
            ELSE entry.gr_pos
    IN  [entry EXCEPT
            !.en_word = Some(Strip(en_text)),
            !.gr_pos = new_pos,
            !.gr_synonyms = @ \cup Range(parse_words(gr_text)),
            !.en_synonyms = @ \cup Range(parse_words(en_text))]

\* the body of the "for item in ..." loop of Wordref.try_fetch_word
try_fetch_word_item(item, entry) ==
    IF ~item.FrWrd.present \/ ~item.ToWrd.present THEN entry
    ELSE
    LET swap == is_english(CellText(item.FrWrd))
        en_text == IF swap THEN CellText(item.FrWrd) ELSE CellText(item.ToWrd)
        gr_text == IF swap THEN CellText(item.ToWrd) ELSE CellText(item.FrWrd)
        en_word == IF ~Truthy(entry.en_word) THEN Some(Strip(en_text))
                   ELSE entry.en_word
        gr_pos == Strip(Replace(gr_text, entry.gr_word.val, <<>>))
        new_pos ==
            IF /\ ~entry.gr_pos.some
               /\ Truthy(entry.gr_word)
               /\ Len(Split(gr_text)) > 1
               /\ IsSubstr(entry.gr_word.val, gr_text)
            THEN (IF IsSubstr(<<",">>, gr_pos) THEN Some(<<>>)
                  ELSE Some(gr_pos))
            ELSE entry.gr_pos
    IN  [entry EXCEPT
            !.en_word = en_word,
            !.gr_pos = new_pos,
            !.gr_synonyms = @ \cup Range(parse_words(gr_text)),
            !.en_synonyms = @ \cup Range(parse_words(en_text))]

\* Wordref.try_fetch_word on the rows of one table
RECURSIVE try_fetch_word(_, _)
try_fetch_word(res, entry) ==
    IF res = <<>> THEN entry
    ELSE try_fetch_word(Tail(res), try_fetch_word_item(Head(res), entry))

\* "Option 2" of Wordref.try_fetch_sentence_pairs: the values the set
\* `sentences` can have after the "for stored_pair in sentences" loop and
\* the "if not stored_already"
store_pair(stored, gr_sentence, en_sentence, gr_en, word) ==
    LET same == { p \in stored :
                    IF gr_en THEN p[2] = en_sentence ELSE p[1] = gr_sentence }
        fine(p) == /\ Truthy(word)
                   /\ IsSubstr(word.val, IF gr_en THEN p[1] ELSE p[2])
    IN  IF same = {} THEN { stored \cup {<<gr_sentence, en_sentence>>} }
        ELSE { IF fine(p) THEN stored
               ELSE (stored \ {p}) \cup {<<gr_sentence, en_sentence>>}
               : p \in same }

\* the loop of Wordref.try_fetch_sentence_pairs that keeps the notice of a
\* missing translation as a Greek sentence
RECURSIVE sentence_pairs_loop_keep_notice(_, _, _, _, _, _)
sentence_pairs_loop_keep_notice(rows, gr_buffer, en_buffer, sentences, gr_en, word) ==
    IF rows = <<>> THEN {sentences}
    ELSE
    LET item == Head(rows)
        fr_ex == item.FrEx
        to_ex == item.ToEx
        reset == ~fr_ex.present /\ ~to_ex.present
        en_sentence == IF fr_ex.present THEN CellText(fr_ex)
                       ELSE IF reset THEN <<>> ELSE en_buffer
        gr_sentence == IF to_ex.present THEN CellText(to_ex)
                       ELSE IF reset THEN <<>> ELSE gr_buffer
    IN  IF gr_sentence # <<>> /\ en_sentence # <<>>
        THEN UNION {
               UNION { sentence_pairs_loop_keep_notice(
                           Tail(rows), gr_sentence, en_sentence,
                           sentences \o added, gr_en, word)
                       : added \in Orderings(stored) }
               : stored \in store_pair(Range(sentences), gr_sentence,
                                       en_sentence, gr_en, word) }
        ELSE sentence_pairs_loop_keep_notice(Tail(rows), gr_sentence,
                                             en_sentence, sentences, gr_en,
                                             word)

\* the "for item in ..." loop of Wordref.try_fetch_sentence_pairs from the
\* rows left, with the two buffers: every value entry.sentences can end with
RECURSIVE sentence_pairs_loop(_, _, _, _, _, _)
sentence_pairs_loop(rows, gr_buffer, en_buffer, sentences, gr_en, word) ==
    IF rows = <<>> THEN {sentences}
    ELSE
    LET item == Head(rows)
        fr_ex == item.FrEx
        to_ex == item.ToEx
        reset == ~fr_ex.present /\ ~to_ex.present
        en_sentence == IF fr_ex.present THEN CellText(fr_ex)
                       ELSE IF reset THEN <<>> ELSE en_buffer
        gr_sentence ==
            IF to_ex.present
            THEN (IF IsSubstr(NOT_TRANSLATION, CellText(to_ex)) THEN <<>>
                  ELSE CellText(to_ex))
            ELSE IF reset THEN <<>> ELSE gr_buffer
    IN  IF gr_sentence # <<>> /\ en_sentence # <<>>
        THEN UNION {
               UNION { sentence_pairs_loop(Tail(rows), gr_sentence,
                                           en_sentence, sentences \o added,
                                           gr_en, word)
                       : added \in Orderings(stored) }
               : stored \in store_pair(Range(sentences), gr_sentence,
                                       en_sentence, gr_en, word) }
        ELSE sentence_pairs_loop(Tail(rows), gr_sentence, en_sentence,
                                 sentences, gr_en, word)

\* Wordref.try_fetch_sentence_pairs on the rows of one table: the entries it
\* can leave
try_fetch_sentence_pairs(res, entry, gr_en, word) ==
    { [entry EXCEPT !.sentences = s]
      : s \in sentence_pairs_loop(res, <<>>, <<>>, entry.sentences, gr_en,
                                  word) }

\* the "for res in soup.find_all(...)" loop of Wordref.try_fetch_entry
RECURSIVE fetch_tables(_, _, _, _)
fetch_tables(tables, entry, gr_en, word) ==
    IF tables = <<>> THEN {entry}
    ELSE UNION { fetch_tables(Tail(tables), e, gr_en, word)
                 : e \in try_fetch_sentence_pairs(
                            Head(tables),
                            try_fetch_word(Head(tables), entry),
                            gr_en, word) }

\* Wordref.try_fetch_entry on the page requests.get returns: the outcomes
\* [raised, word, entry], word being self.word afterwards
try_fetch_entry(self, page) ==
    IF page.status # "ok"
    THEN {[raised |-> "HTTPError", word |-> self.word,
           entry |-> Entry(<<>>, None, self.gr_en, self.hide_words,
                           self.min_sentences_shown,
                           self.max_sentences_shown, self.is_random)]}
    ELSE
    LET accented == fetch_accented_word(page)
        new_url == BASE_URL \o <<"/", "g", "r", "e", "n", "/">>
                   \o accented.word
        entry == Entry(new_url, Some(accented.word), self.gr_en, self.hide_words,
                       self.min_sentences_shown, self.max_sentences_shown,
                       self.is_random)
    IN  IF accented.raised # ""
        THEN {[raised |-> accented.raised, word |-> self.word,
               entry |-> entry]}
        ELSE { [raised |-> "", word |-> Some(accented.word), entry |-> e]
               : e \in fetch_tables(page.tables, entry, self.gr_en,
                                    Some(accented.word)) }

-----------------------------------------------------------------------------
(* cogs/wordref/entry.py *)

\* f"{x}" of an Optional[str]
Format(o) == IF o.some THEN o.val ELSE <<"N", "o", "n", "e">>

\* str(n) of a non-negative int
RECURSIVE DecimalStr(_)
DecimalStr(n) ==
    LET digit == <<"0", "1", "2", "3", "4", "5", "6", "7", "8", "9">>
    IN  IF n < 10 THEN <<digit[n + 1]>>
        ELSE DecimalStr(n \div 10) \o <<digit[(n % 10) + 1]>>

\* Entry.is_valid_entry without the count of the sentences
is_valid_entry_any_sentences(self) ==
    /\ self.link # <<>>
    /\ Truthy(self.gr_word)
    /\ Truthy(self.en_word)
    /\ self.gr_synonyms # {}
    /\ self.en_synonyms # {}

\* Entry.is_valid_entry
is_valid_entry(self) ==
    /\ self.link # <<>>
    /\ Truthy(self.gr_word)
    /\ Truthy(self.en_word)
    /\ self.gr_synonyms # {}
    /\ self.en_synonyms # {}
    /\ Len(self.sentences) >= self.min_sentences_shown

\* len(embed) of a discord.Embed with a title, a description and a footer
EmbedLen(embed) ==
    StrLen(embed.title) + StrLen(embed.description) + StrLen(embed.footer)

\* Entry.is_valid_embed with "> 2000" for ">= 2000"
is_valid_embed_off_by_one(self) == ~(EmbedLen(self.embed) > 2000)

\* Entry.is_valid_embed
is_valid_embed(self) == ~(EmbedLen(self.embed) >= 2000)

\* the sort without reverse=True: the pairs whose key is False first
SortFalseFirst(pairs, word) ==
    SelectSeq(pairs, LAMBDA pair : ~IsSubstr(word, pair[1]))
    \o SelectSeq(pairs, LAMBDA pair : IsSubstr(word, pair[1]))

\* list.sort(key=..., reverse=True) with a bool key: the pairs whose key is
\* True first, each group in its old order
SortTrueFirst(pairs, word) ==
    SelectSeq(pairs, LAMBDA pair : IsSubstr(word, pair[1]))
    \o SelectSeq(pairs, LAMBDA pair : ~IsSubstr(word, pair[1]))

\* Entry.sort_sentences_by_contains_word
sort_sentences_by_contains_word(self) ==
    [self EXCEPT !.sentences =
        SortTrueFirst(@, IF self.gr_en THEN self.gr_word.val
                         ELSE self.en_word.val)]

\* a swap that also marks the entry as swapped
swap_gr_en_and_flag(self) ==
    [self EXCEPT
        !.gr_en = TRUE,
        !.gr_word = self.en_word,
        !.en_word = self.gr_word,
        !.sentences = [i \in DOMAIN self.sentences |->
                          <<self.sentences[i][2], self.sentences[i][1]>>]]

\* the swap of Entry.get_embed when gr_en is false
swap_gr_en(self) ==
    [self EXCEPT
        !.gr_word = self.en_word,
        !.en_word = self.gr_word,
        !.sentences = [i \in DOMAIN self.sentences |->
                          <<self.sentences[i][2], self.sentences[i][1]>>]]

\* the sentences loop of Entry.get_embed writing the second sentence of a
\* pair without sep around it
RECURSIVE embed_sentences_unwrapped(_, _, _)
embed_sentences_unwrapped(self, idx, sep) ==
    IF idx >= Len(self.sentences) \/ idx >= self.max_sentences_shown
    THEN {[raised |-> "", value |-> <<>>]}
    ELSE
    LET gsen == self.sentences[idx + 1][1]
        esen == self.sentences[idx + 1][2]
        number == <<">", " ">> \o DecimalStr(idx + 1) \o <<":", " ">>
    IN  UNION { UNION { UNION {
            IF g.raised # "" THEN {[raised |-> g.raised, value |-> <<>>]}
            ELSE IF e.raised # "" THEN {[raised |-> e.raised, value |-> <<>>]}
            ELSE IF rest.raised # "" THEN {rest}
            ELSE {[raised |-> "",
                   value |-> number \o g.value \o <<"LF">>
                             \o number \o e.value \o <<"LF">>
                             \o rest.value]}
            : rest \in embed_sentences_unwrapped(self, idx + 1, sep) }
            : e \in highlight_synonyms(esen, self.en_synonyms) }
            : g \in highlight_synonyms(gsen, self.gr_synonyms) }

\* the "for idx, (gsen, esen) in enumerate(self.sentences)" loop of
\* Entry.get_embed from idx on: every text it can append, or the exception
RECURSIVE embed_sentences(_, _, _)
embed_sentences(self, idx, sep) ==
    IF idx >= Len(self.sentences) \/ idx >= self.max_sentences_shown
    THEN {[raised |-> "", value |-> <<>>]}
    ELSE
    LET gsen == self.sentences[idx + 1][1]
        esen == self.sentences[idx + 1][2]
        number == <<">", " ">> \o DecimalStr(idx + 1) \o <<":", " ">>
    IN  UNION { UNION { UNION {
            IF g.raised # "" THEN {[raised |-> g.raised, value |-> <<>>]}
            ELSE IF e.raised # "" THEN {[raised |-> e.raised, value |-> <<>>]}
            ELSE IF rest.raised # "" THEN {rest}
            ELSE {[raised |-> "",
                   value |-> number \o g.value \o <<"LF">>
                             \o number \o sep \o e.value \o sep \o <<"LF">>
                             \o rest.value]}
            : rest \in embed_sentences(self, idx + 1, sep) }
            : e \in highlight_synonyms(esen, self.en_synonyms) }
            : g \in highlight_synonyms(gsen, self.gr_synonyms) }

\* Entry.get_embed with the default arguments (show_synonyms is False): the
\* outcomes [raised, entry, embed], entry being self afterwards
get_embed(self) ==
    LET swapped == IF self.gr_en THEN self ELSE swap_gr_en(self)
        pos == IF self.gr_en /\ Truthy(self.gr_pos)
               THEN <<" ", "-", " ", "*">> \o self.gr_pos.val \o <<"*">>
               ELSE <<>>
        title == <<"bullet", "bullet", "bullet", "bullet", "bullet", " ">>
                 \o Format(swapped.gr_word) \o pos
                 \o <<" ", "bullet", "bullet", "bullet", "bullet", "bullet">>
        sep == IF self.hide_words THEN <<"|", "|">> ELSE <<>>
        translations ==
            <<"*", "*", "T", "r", "a", "n", "s", "l", "a", "t", "i", "o",
              "n", "s", ":", "*", "*", " ">>
            \o sep \o Format(swapped.en_word) \o sep \o <<"LF">>
        sorted == sort_sentences_by_contains_word(swapped)
        header == <<"*", "*", "S", "e", "n", "t", "e", "n", "c", "e", "s",
                    ":", "*", "*", "LF">>
        footer ==
            <<"h", "t", "t", "p", "s", ":", "/", "/", "f", "o", "r", "v",
              "o", ".", "c", "o", "m", "/", "w", "o", "r", "d", "/">>
            \o Format(swapped.gr_word) \o <<"/", "#", "e", "l">>
    IN  { IF s.raised # ""
          THEN [raised |-> s.raised, entry |-> sorted, embed |-> NoEmbed]
          ELSE [raised |-> "", entry |-> sorted,
                embed |-> [some |-> TRUE,
                           title |-> title,
                           url |-> self.link,
                           description |->
                               translations
                               \o (IF s.value = <<>> THEN <<>>
                                   ELSE header \o s.value),
                           footer |-> footer]]
          : s \in embed_sentences(sorted, 0, sep) }

\* Entry.add_embed
add_embed(self) ==
    { [raised |-> o.raised,
       entry |-> [o.entry EXCEPT !.embed = o.embed]]
      : o \in get_embed(self) }

-----------------------------------------------------------------------------
(* cogs/wordref/wordref.py: the embed of one fetched page *)

\* Wordref.try_fetch_embed that renders the entry without asking whether it
\* is valid
try_fetch_embed_unchecked(self, page) ==
    UNION {
        IF fetched.raised # ""
        THEN {[raised |-> fetched.raised, word |-> fetched.word,
               entry |-> fetched.entry, result |-> NoEmbed]}
        ELSE { IF added.raised # ""
               THEN [raised |-> added.raised, word |-> fetched.word,
                     entry |-> added.entry, result |-> NoEmbed]
               ELSE [raised |-> "", word |-> fetched.word,
                     entry |-> added.entry,
                     result |-> IF is_valid_embed(added.entry)
                                THEN added.entry.embed ELSE NoEmbed]
               : added \in add_embed(fetched.entry) }
        : fetched \in try_fetch_entry(self, page) }

\* Wordref.try_fetch_embed on the page requests.get returns: the outcomes
\* [raised, word, entry, result]; result NoEmbed is Python's None
try_fetch_embed(self, page) ==
    UNION {
        IF fetched.raised # "" \/ ~is_valid_entry(fetched.entry)
        THEN {[raised |-> fetched.raised, word |-> fetched.word,
               entry |-> fetched.entry, result |-> NoEmbed]}
        ELSE { IF added.raised # ""
               THEN [raised |-> added.raised, word |-> fetched.word,
                     entry |-> added.entry, result |-> NoEmbed]
               ELSE [raised |-> "", word |-> fetched.word,
                     entry |-> added.entry,
                     result |-> IF is_valid_embed(added.entry)
                                THEN added.entry.embed ELSE NoEmbed]
               : added \in add_embed(fetched.entry) }
        : fetched \in try_fetch_entry(self, page) }

\* Wordref.fetch_embed that goes on calling after an embed was returned
fetch_embed_no_early_return(self, tries) ==
    IF ~self.is_random
    THEN [returned |-> TRUE, value |-> tries[Len(tries)]]
    ELSE IF Len(tries) >= self.max_random_iterations
    THEN [returned |-> TRUE, value |-> tries[Len(tries)]]
    ELSE [returned |-> FALSE, value |-> NoEmbed]

\* Wordref.fetch_embed after the calls of try_fetch_embed that returned
\* `tries` (one at least): whether it returns now, and what
fetch_embed(self, tries) ==
    IF ~self.is_random
    THEN [returned |-> TRUE, value |-> tries[Len(tries)]]
    ELSE IF tries[Len(tries)].some
    THEN [returned |-> TRUE, value |-> tries[Len(tries)]]
    ELSE IF Len(tries) >= self.max_random_iterations
    THEN [returned |-> TRUE, value |-> NoEmbed]
    ELSE [returned |-> FALSE, value |-> NoEmbed]

-----------------------------------------------------------------------------
(* utils.py: the spelling correction *)

\* fix_greek_spelling on the page requests.get returns: the word, or the
\* exception of raise_for_status
fix_greek_spelling(word, page) ==
    IF page.status # "ok" THEN [raised |-> "HTTPError", word |-> word]
    ELSE LET accented == fetch_accented_word(page)
         IN  [raised |-> "",
              word |-> StripCommas(IF accented.raised = "" THEN accented.word
                                   ELSE word)]

-----------------------------------------------------------------------------
(* cogs/pronunciation/forvo.py *)

\* What forvo.com answers to the GET of a word page: the status, and of a
\* page the languages of its "language-container-xx" elements in document
\* order, whether the container of a language has an element of class
\* "pronunciations", and the <li> elements of its lists.  An <li> is "ok"
\* (every element the loop reads is there), "skipped" (no element of class
\* "more"), "broken" (an element the loop indexes with [0] is missing) or
\* "no_id" (no data-p attribute with a number).
ForvoResponse(status, langs, has_list, items) ==
    [status |-> status, langs |-> langs, has_list |-> has_list,
     items |-> items]

\* Forvo.__init__
Forvo(word, language) ==
    [language |-> language, word |-> Strip(word), pronunciations |-> <<>>]

\* Forvo._fetch_soup that passes every HTTPError on as it is
_fetch_soup_reraising(self, response) ==
    IF response.status = 200 THEN [raised |-> "", soup |-> response]
    ELSE [raised |-> "HTTPError", soup |-> response]

\* Forvo._fetch_soup on the answer of urlopen: the soup, or the exception
_fetch_soup(self, response) ==
    IF response.status = 200 THEN [raised |-> "", soup |-> response]
    ELSE IF response.status = 404
    THEN [raised |-> "NotFoundError", soup |-> response]
    ELSE [raised |-> "RuntimeError", soup |-> response]

\* Forvo.fetch_soup on the answers of the GETs it makes, from attempt k on:
\* "for _ in range(3)", going on only after an HTTPError of code 403; when
\* the loop ends without a soup self.soup is not set
RECURSIVE fetch_soup(_, _, _)
fetch_soup(self, responses, k) ==
    IF k > 3 \/ k > Len(responses)
    THEN [raised |-> "", soup_set |-> FALSE, soup |-> responses[1]]
    ELSE LET r == _fetch_soup(self, responses[k])
         IN  IF r.raised = "" THEN [raised |-> "", soup_set |-> TRUE,
                                    soup |-> r.soup]
             ELSE IF r.raised = "HTTPError" /\ responses[k].status = 403
             THEN fetch_soup(self, responses, k + 1)
             ELSE [raised |-> r.raised, soup_set |-> FALSE,
                   soup |-> r.soup]

\* the two loops over the <li> elements in Forvo.get_pronunciations, from
\* element k on: the list self.pronunciations ends with, or the exception
RECURSIVE pronunciations_loop(_, _, _)
pronunciations_loop(items, k, pronunciations) ==
    IF k > Len(items) THEN [raised |-> "", pronunciations |-> pronunciations]
    ELSE IF items[k] = "skipped"
    THEN pronunciations_loop(items, k + 1, pronunciations)
    ELSE IF items[k] = "broken"
    THEN [raised |-> "IndexError", pronunciations |-> pronunciations]
    ELSE IF items[k] = "no_id"
    THEN [raised |-> "StopIteration", pronunciations |-> pronunciations]
    ELSE pronunciations_loop(items, k + 1, Append(pronunciations, k))

\* Forvo.get_pronunciations: self.pronunciations afterwards, or the
\* exception
get_pronunciations(self, soup) ==
    IF self.language \notin Range(soup.langs)
    THEN [raised |-> "NotFoundError", pronunciations |-> self.pronunciations]
    ELSE IF ~soup.has_list
    THEN [raised |-> "IndexError", pronunciations |-> self.pronunciations]
    ELSE pronunciations_loop(soup.items, 1, self.pronunciations)

\* get_forvo_pronunciation_audio on the answers of forvo.com: the outcomes
\* [raised, audio]; audio names the pronunciation random.choice took
get_forvo_pronunciation_audio(word, responses) ==
    LET fv == Forvo(word, "el")
        fetched == fetch_soup(fv, responses, 1)
    IN  IF fetched.raised # ""
        THEN {[raised |-> fetched.raised, audio |-> <<>>]}
        ELSE IF ~fetched.soup_set
        THEN {[raised |-> "AttributeError", audio |-> <<>>]}
        ELSE LET got == get_pronunciations(fv, fetched.soup)
             IN  IF got.raised # ""
                 THEN {[raised |-> got.raised, audio |-> <<>>]}
                 ELSE IF got.pronunciations = <<>>
                 THEN {[raised |-> "IndexError", audio |-> <<>>]}
                 ELSE { [raised |-> "",
                         audio |-> <<"audio", got.pronunciations[i]>>]
                        : i \in DOMAIN got.pronunciations }

\* cogs/pronunciation/pronunciation.py, get_pronunciation: the message
\* "Word: ...\nIPA: ...\n" and the audio of get_forvo_pronunciation_audio,
\* or its exception
get_pronunciation(word, responses) ==
    { IF a.raised # ""
      THEN [raised |-> a.raised, message |-> <<>>, audio_file |-> <<>>]
      ELSE [raised |-> "",
            message |-> <<"W", "o", "r", "d", ":", " ">> \o word
                        \o <<"LF", "I", "P", "A", ":", " ", "ipa", "LF">>,
            audio_file |-> a.audio]
      : a \in get_forvo_pronunciation_audio(word, responses) }

-----------------------------------------------------------------------------
(* cogs/wiktionary/wiktionary.py *)

\* A parsed page of el.wiktionary.org: whether it has the <h4 id="Κλίση">,
\* its <div class="NavFrame"> elements in document order, whether it has
\* the main content <div>, the number of <tr> of each <table> in it, and
\* the titles of the links parse_suggestions collects, in document order.
\* A NavFrame is: whether it has a NavHead, the text of the NavHead,
\* whether it has a NavContent, and the number of <tr> in it.
NavFrame(has_head, title, has_content, rows) ==
    [has_head |-> has_head, title |-> title, has_content |-> has_content,
     rows |-> rows]

WikiPage(header, frames, main, tables, suggestions) ==
    [header |-> header, frames |-> frames, main |-> main, tables |-> tables,
     suggestions |-> suggestions]

\* WiktionaryQuery.create on the page the site has for the word
WiktionaryQuery(word, site) == [word |-> Strip(word), soup |-> site[word]]

\* "Ενεργητική φωνή" and "Παθητική φωνή"
VERB_VOICES == <<"Energitiki foni", "Pathitiki foni">>

\* the first loop of _parse_conjugation_table_one from frame k on: the
\* list table_data (of each voice the frame it was read from and the
\* number of rows kept), or the exception
RECURSIVE voice_frames(_, _, _)
voice_frames(nav_frame, k, table_data) ==
    IF k > Len(nav_frame) THEN [raised |-> "", table_data |-> table_data]
    ELSE LET verb_voice == nav_frame[k]
         IN  IF ~verb_voice.has_head
             THEN voice_frames(nav_frame, k + 1, table_data)
             ELSE IF verb_voice.title \notin Range(VERB_VOICES)
             THEN voice_frames(nav_frame, k + 1, table_data)
             ELSE IF ~verb_voice.has_content
             THEN [raised |-> "AttributeError", table_data |-> table_data]
             ELSE voice_frames(nav_frame, k + 1,
                      Append(table_data,
                             [frame |-> k,
                              rows |-> IF verb_voice.rows > 16 THEN 16
                                       ELSE verb_voice.rows]))

\* the "for idx_voice, voice_data in enumerate(table_data)" loop from
\* idx_voice on: the dict parsed (of each voice the frame its tenses were
\* read from and the number of its blocks of 8 rows), or the exception
RECURSIVE store_voices(_, _, _, _)
store_voices(nav_frame, table_data, idx_voice, parsed) ==
    IF idx_voice >= Len(table_data)
    THEN [raised |-> "", value |-> Some(parsed)]
    ELSE LET voice_data == table_data[idx_voice + 1]
         IN  IF voice_data.rows % 8 # 0
             THEN [raised |-> "RabotError", value |-> None]
             ELSE IF idx_voice >= Len(VERB_VOICES)
             THEN [raised |-> "IndexError", value |-> None]
             ELSE LET key == VERB_VOICES[idx_voice + 1]
                  IN  store_voices(nav_frame, table_data, idx_voice + 1,
                          [v \in DOMAIN parsed \cup {key} |->
                              IF v = key
                              THEN [frame |-> voice_data.frame,
                                    tenses |-> voice_data.rows \div 8]
                              ELSE parsed[v]])

\* the empty dict
EmptyDict == [v \in {} |-> 0]

\* _parse_conjugation_table_one: [raised, value], value None or the dict
_parse_conjugation_table_one(query) ==
    LET nav_frame == query.soup.frames
    IN  IF nav_frame = <<>> THEN [raised |-> "", value |-> None]
        ELSE LET read == voice_frames(nav_frame, 1, <<>>)
             IN  IF read.raised # ""
                 THEN [raised |-> read.raised, value |-> None]
                 ELSE IF read.table_data = <<>>
                 THEN [raised |-> "", value |-> None]
                 ELSE store_voices(nav_frame, read.table_data, 0, EmptyDict)

\* _parse_conjugation_table_two: the rows of the tables of 7 rows make one
\* table of the active voice (every row taken to have a cell with text and
\* the table to have the two tenses asked for)
_parse_conjugation_table_two(query) ==
    LET tables == query.soup.tables
        seven == { t \in DOMAIN tables : tables[t] = 7 }
    IN  IF ~query.soup.main THEN [raised |-> "RabotError", value |-> None]
        ELSE IF tables = <<>> THEN [raised |-> "", value |-> None]
        ELSE IF seven = {} THEN [raised |-> "", value |-> None]
        ELSE IF Cardinality(seven) # 1
        THEN [raised |-> "AssertionError", value |-> None]
        ELSE [raised |-> "",
              value |-> Some([v \in {VERB_VOICES[1]} |->
                                 [frame |-> 0, tenses |-> 1]])]

\* bool(x) of a dict or None
TruthyDict(o) == o.some /\ DOMAIN o.val # {}

\* _parse_conjugation
_parse_conjugation(query) ==
    IF ~query.soup.header THEN [raised |-> "", value |-> None]
    ELSE LET one == _parse_conjugation_table_one(query)
         IN  IF one.raised # "" THEN one
             ELSE IF TruthyDict(one.value) THEN one
             ELSE _parse_conjugation_table_two(query)

\* parse_suggestions: the titles of the links in the elements it searches
parse_suggestions(query) == query.soup.suggestions

\* list({*suggestions}): the word asked for not taken out
suggestions_with_word(query) == Orderings(Range(parse_suggestions(query)))

\* list({*suggestions} - {query.word}): every order the set can be listed in
valid_suggestions(query) ==
    Orderings(Range(parse_suggestions(query)) \ {query.word})

-----------------------------------------------------------------------------
(* The pages the site can serve, and the four commands of main.py *)

Row(cls, fr_wrd, to_wrd, fr_ex, to_ex) ==
    [cls |-> cls, FrWrd |-> fr_wrd, ToWrd |-> to_wrd, FrEx |-> fr_ex,
     ToEx |-> to_ex]

\* the rows a table is made of
\* a headword row, Greek first
WordRow ==
    Row("even", StrongCell(<<"alpha_tonos", "lambda">>,
                           <<" ", "epsilon", "pi", "iota_tonos", "theta">>),
        Cell(<<"a", "b", " ", "a", "d", "j">>), NoCell, NoCell)

\* a headword row, English first
EnglishFirstRow ==
    Row("even", StrongCell(<<"a", "b">>, <<" ", "a", "d", "j">>),
        Cell(<<"alpha_tonos", "lambda">>), NoCell, NoCell)

\* a headword row whose word is not in a <strong>
NoStrongRow ==
    Row("even", Cell(<<"alpha_tonos", "lambda">>), Cell(<<"a", "b">>),
        NoCell, NoCell)

\* a headword row whose <strong> holds no word
BlankStrongRow ==
    Row("even", StrongCell(<<" ">>, <<>>), Cell(<<"a", "b">>), NoCell, NoCell)

\* a row with a further translation only
TranslationRow == Row("odd", NoCell, Cell(<<"b", "a">>), NoCell, NoCell)

\* an English example, and one padded to a long sentence
ExampleRow == Row("even", NoCell, NoCell, Cell(<<"a", "b", ".">>), NoCell)

LongExampleRow ==
    Row("even", NoCell, NoCell, Cell(<<"a", "b", "dots">>), NoCell)

\* Greek examples: with the headword, without it, padded to a long sentence,
\* and with the notice of a missing translation
TranslatedRow ==
    Row("even", NoCell, NoCell, NoCell,
        Cell(<<"alpha_tonos", "lambda", " ", "lambda", "alpha">>))

OtherTranslatedRow ==
    Row("odd", NoCell, NoCell, NoCell, Cell(<<"lambda", "alpha">>))

LongTranslatedRow ==
    Row("even", NoCell, NoCell, NoCell,
        Cell(<<"alpha_tonos", "lambda", "dots">>))

NotTranslatedRow ==
    Row("even", NoCell, NoCell, NoCell,
        Cell(<<"lambda", "alpha", " ", "not_translation">>))

\* a translation row whose cells hold an annotation and no word
AnnotationRow ==
    Row("odd", Cell(<<"epsilon", "pi", "iota_tonos", "theta">>),
        Cell(<<"a", "d", "j">>), NoCell, NoCell)

\* an English example with a full stop that stands apart
SpacedExampleRow ==
    Row("even", NoCell, NoCell, Cell(<<"a", "b", " ", ".">>), NoCell)

\* a translation row whose English cell holds blanks only
BlankEnglishRow ==
    Row("odd", Cell(<<"lambda", "alpha">>), Cell(<<" ">>), NoCell, NoCell)

\* a translation row that names another part of speech after the headword
OtherPartRow ==
    Row("odd", Cell(<<"alpha_tonos", "lambda", " ", "rho">>),
        Cell(<<"b", "a">>), NoCell, NoCell)

\* a row with none of the four cells
EmptyRow == Row("odd", NoCell, NoCell, NoCell, NoCell)

\* the rows the pages of one call are built from
RowChoices ==
    { WordRow, EnglishFirstRow, ExampleRow, LongExampleRow, TranslatedRow,
      LongTranslatedRow, NotTranslatedRow, EmptyRow }

\* the ways to cut a sequence of rows into consecutive non-empty tables
RECURSIVE Cuts(_, _)
Cuts(rows, max_tables) ==
    IF rows = <<>> THEN {<<>>}
    ELSE IF max_tables = 0 THEN {}
    ELSE UNION { { <<SubSeq(rows, 1, k)>> \o rest
                   : rest \in Cuts(Drop(rows, k), max_tables - 1) }
                 : k \in 1..Len(rows) }

OkPage(tables) == [status |-> "ok", tables |-> tables]

HttpErrorPage == [status |-> "http_error", tables |-> <<>>]

\* the pages of at most MaxRows rows in at most MaxTables tables, and the
\* response raise_for_status() rejects
Pages ==
    { OkPage(tables)
      : tables \in UNION { Cuts(rows, MaxTables)
                           : rows \in StringsUpTo(RowChoices, MaxRows) } }
    \cup {HttpErrorPage}

\* the pages the site answers a command handler with: a refused request, a
\* page without a word table, pages without the <strong> word, an entry
\* without examples, an entry with one example pair (Greek first and
\* English first), an entry with two translations of its example, and an
\* entry with a pair of long sentences
SitePages ==
    { HttpErrorPage,
      OkPage(<<>>),
      OkPage(<< <<NoStrongRow>> >>),
      OkPage(<< <<BlankStrongRow>> >>),
      OkPage(<< <<WordRow>> >>),
      OkPage(<< <<WordRow, ExampleRow, TranslatedRow>> >>),
      OkPage(<< <<EnglishFirstRow, ExampleRow, TranslatedRow>> >>),
      OkPage(<< <<WordRow, TranslationRow, ExampleRow, TranslatedRow,
                  OtherTranslatedRow>> >>),
      OkPage(<< <<WordRow, LongExampleRow, LongTranslatedRow>> >>) }

\* the word a user types: unaccented
TypedWord == <<"alpha", "lambda">>

\* the arguments the commands wotdgr, wotden, searchgr and searchen give
\* templ_wordref: word, gr_en, hide_words, min_sentences_shown (and the
\* default max_sentences_shown)
Commands ==
    { [name |-> "wotdgr", word |-> None, gr_en |-> TRUE,
       hide_words |-> TRUE, min_sentences_shown |-> 1,
       max_sentences_shown |-> 2],
      [name |-> "wotden", word |-> None, gr_en |-> FALSE,
       hide_words |-> TRUE, min_sentences_shown |-> 1,
       max_sentences_shown |-> 2],
      [name |-> "searchgr", word |-> Some(TypedWord), gr_en |-> TRUE,
       hide_words |-> FALSE, min_sentences_shown |-> 0,
       max_sentences_shown |-> 2],
      [name |-> "searchen", word |-> Some(<<"a", "b">>), gr_en |-> FALSE,
       hide_words |-> FALSE, min_sentences_shown |-> 0,
       max_sentences_shown |-> 2] }

\* the Wordref templ_wordref constructs for a command
WordrefOf(cmd) ==
    Wordref(cmd.word, cmd.gr_en, cmd.hide_words, cmd.min_sentences_shown,
            cmd.max_sentences_shown)

-----------------------------------------------------------------------------
(* Values of the variables a specification does not use *)

NoRet == [op |-> "none", value |-> 0,
          delta |-> [raised |-> "", num |-> 0, den |-> 0]]

IdleLcs == arg_a = <<>> /\ arg_b = <<>> /\ ret = NoRet

NoHighlight == [called |-> FALSE, raised |-> "", value |-> <<>>]

IdleHighlight ==
    hl_sentence = <<>> /\ hl_synonyms = {} /\ hl_ret = NoHighlight

NoEntry == Entry(<<>>, None, FALSE, FALSE, 0, 0, FALSE)

NoCall == [called |-> FALSE, raised |-> "", word |-> None,
           entry |-> NoEntry, result |-> NoEmbed]

NoPage == [status |-> "ok", tables |-> <<>>]

IdleEmbed ==
    /\ te_self = Wordref(None, FALSE, FALSE, 0, 0)
    /\ te_page = NoPage
    /\ te_out = NoCall

NoResponse == [sent |-> FALSE, content |-> <<>>, embed |-> NoEmbed]

IdleTempl ==
    /\ tw_cmd = CHOOSE cmd \in Commands : cmd.name = "wotdgr"
    /\ tw_pc = "idle"
    /\ tw_word = None
    /\ tw_wordref = WordrefOf(tw_cmd)
    /\ tw_page = NoPage
    /\ tw_tries = <<>>
    /\ tw_embed = NoEmbed
    /\ tw_first = "pending"
    /\ tw_lookups = 0
    /\ tw_fixes = 0
    /\ tw_response = NoResponse
    /\ tw_exc = ""
    /\ tw_entry = NoEntry

IdleInvert == inv_orig = NoEntry /\ inv_entry = NoEntry /\ inv_steps = 0

IdleOld == IdleLcs /\ IdleHighlight /\ IdleEmbed /\ IdleTempl

IdleParse ==
    /\ pw_input = <<>>
    /\ pw_attributes = <<>>
    /\ pw_text = <<>>
    /\ pw_pc = "idle"
    /\ pw_passes = 0
    /\ pw_round = 0
    /\ pw_first = <<>>

NoPronunciation == [raised |-> "", message |-> <<>>, audio_file |-> <<>>]

IdleForvo ==
    /\ fv_word = <<>>
    /\ fv_pc = "idle"
    /\ fv_lookups = <<>>
    /\ fv_fixes = 0
    /\ fv_result = NoPronunciation
    /\ fv_responses = <<>>
    /\ fv_exc = ""

IdleConcurrent == cq_heap = <<>> /\ cq_task = <<>>

NoRender == [called |-> FALSE, raised |-> "", entry |-> NoEntry,
             embed |-> NoEmbed]

IdleRender == rd_entry = NoEntry /\ rd_out = NoRender

NoSoup == [set |-> FALSE, soup |-> ForvoResponse(0, <<>>, FALSE, <<>>)]

IdleSoup ==
    /\ fs_fv = Forvo(<<>>, "")
    /\ fs_pc = "idle"
    /\ fs_gets = <<>>
    /\ fs_soup = NoSoup
    /\ fs_exc = ""

NoConjugation ==
    [state |-> "pending", raised |-> "", value |-> None, word |-> <<>>]

IdleConj ==
    /\ cj_word = <<>>
    /\ cj_site = <<>>
    /\ cj_pc = "idle"
    /\ cj_fetched = <<>>
    /\ cj_valid = <<>>
    /\ cj_result = NoConjugation

NoVoices == [called |-> FALSE, raised |-> "", value |-> None]

IdleVoices ==
    /\ vt_query = [word |-> <<>>, soup |-> <<>>]
    /\ vt_out = NoVoices

NoMessage == [view |-> FALSE, disabled |-> <<FALSE, FALSE>>]

IdlePagination ==
    /\ pg_n = 0
    /\ pg_index = 0
    /\ pg_total_pages = 0
    /\ pg_disabled = <<FALSE, FALSE>>
    /\ pg_flight = <<>>
    /\ pg_client = NoMessage
    /\ pg_gets = <<>>
    /\ pg_exc = <<>>

IdleScan ==
    /\ sc_self = Wordref(None, FALSE, FALSE, 0, 0)
    /\ sc_page = NoPage
    /\ sc_table = 0
    /\ sc_row = 0
    /\ sc_entry = NoEntry

IdleLate ==
    /\ IdleRender
    /\ IdleSoup
    /\ IdleConj
    /\ IdleVoices
    /\ IdlePagination
    /\ IdleScan

IdleEarly ==
    IdleOld /\ IdleInvert /\ IdleParse /\ IdleForvo /\ IdleConcurrent

IdleMore ==
    IdleInvert /\ IdleParse /\ IdleForvo /\ IdleConcurrent /\ IdleLate

RenderOnly ==
    /\ IdleEarly
    /\ IdleSoup
    /\ IdleConj
    /\ IdleVoices
    /\ IdlePagination
    /\ IdleScan

SoupOnly ==
    /\ IdleEarly
    /\ IdleRender
    /\ IdleConj
    /\ IdleVoices
    /\ IdlePagination
    /\ IdleScan

ConjOnly ==
    /\ IdleEarly
    /\ IdleRender
    /\ IdleSoup
    /\ IdleVoices
    /\ IdlePagination
    /\ IdleScan

VoicesOnly ==
    /\ IdleEarly
    /\ IdleRender
    /\ IdleSoup
    /\ IdleConj
    /\ IdlePagination
    /\ IdleScan

PaginationOnly ==
    /\ IdleEarly
    /\ IdleRender
    /\ IdleSoup
    /\ IdleConj
    /\ IdleVoices
    /\ IdleScan

ScanOnly ==
    /\ IdleEarly
    /\ IdleRender
    /\ IdleSoup
    /\ IdleConj
    /\ IdleVoices
    /\ IdlePagination

-----------------------------------------------------------------------------
(* The similarity engine applied to bounded inputs *)

WordAlphabet == {"alpha", "Alpha_tonos", "tonos", "lambda"}

Words == StringsUpTo(WordAlphabet, MaxWordLen)

InitLcs ==
    /\ arg_a \in Words
    /\ arg_b \in Words
    /\ ret = NoRet
    /\ IdleHighlight
    /\ IdleEmbed
    /\ IdleTempl
    /\ IdleMore

CallLcs ==
    /\ ret.op = "none"
    /\ ret' = [NoRet EXCEPT !.op = "lcs", !.value = lcs(arg_a, arg_b)]
    /\ UNCHANGED <<arg_a, arg_b, hl_vars, te_vars, tw_vars, more_vars>>

CallGetDelta ==
    /\ ret.op = "none"
    /\ ret' = [NoRet EXCEPT !.op = "get_delta",
                            !.delta = get_delta(arg_a, arg_b)]
    /\ UNCHANGED <<arg_a, arg_b, hl_vars, te_vars, tw_vars, more_vars>>

NextLcs == CallLcs \/ CallGetDelta

SpecLcs == InitLcs /\ [][NextLcs]_vars

-----------------------------------------------------------------------------
(* Claims about lcs and get_delta *)

\* length of the longest string that is a substring of both a and b
RefLcs(a, b) ==
    LET common == { k \in 0..Len(a) :
                      \E i \in 0..(Len(a) - k) :
                          IsSubstr(SubSeq(a, i + 1, i + k), b) }
    IN  CHOOSE k \in common : \A j \in common : j <= k

\* C1: lcs(a, b) is the length of the longest contiguous run of characters
\* of a that also occurs contiguously in b, and is len(a) when a == b.
C1_LcsIsLongestCommonSubstring ==
    ret.op = "lcs" =>
        /\ ret.value = RefLcs(arg_a, arg_b)
        /\ (arg_a = arg_b => ret.value = Len(arg_a))

\* C2 as stated: for every non-empty word a, get_delta(a, a) is 0, and a
\* defined get_delta lies in [0, 1].
C2_DeltaSelfZeroForNonEmpty ==
    ret.op = "get_delta" =>
        /\ (arg_a = arg_b /\ Len(arg_a) > 0 =>
                ret.delta.raised = "" /\ ret.delta.num = 0)
        /\ (ret.delta.raised = "" =>
                0 <= ret.delta.num /\ ret.delta.num <= ret.delta.den)

\* C2 amended: for every word a that is non-empty after normalization,
\* get_delta(a, a) is 0; whenever get_delta is defined, 0 <= m <= max_length,
\* so 0 <= (max_length - m) / max_length <= 1.
C2_DeltaSelfZeroAndBounded ==
    ret.op = "get_delta" =>
        /\ (arg_a = arg_b /\ Len(normalize_greek_word(arg_a)) > 0 =>
                ret.delta.raised = "" /\ ret.delta.num = 0)
        /\ (ret.delta.raised = "" =>
                /\ ret.delta.den > 0
                /\ 0 <= ret.delta.num
                /\ ret.delta.num <= ret.delta.den)

C2_Witness ==
    /\ ret.op = "get_delta"
    /\ arg_a = arg_b
    /\ arg_a = <<"Alpha_tonos", "lambda", "alpha">>
    /\ ret.delta = [raised |-> "", num |-> 0, den |-> 3]

\* the letter a character stands for once accent and case are ignored;
\* "" for a bare accent
BaseLetter(c) ==
    CASE c \in {"alpha", "Alpha", "alpha_tonos", "Alpha_tonos"} -> "ALPHA"
      [] c \in {"lambda", "Lambda"} -> "LAMBDA"
      [] c = "tonos" -> ""
      [] OTHER -> c

RECURSIVE BaseWord(_)
BaseWord(s) ==
    IF s = <<>> THEN <<>>
    ELSE (IF BaseLetter(Head(s)) = "" THEN <<>> ELSE <<BaseLetter(Head(s))>>)
         \o BaseWord(Tail(s))

\* C3: two words that differ only by accents and/or letter case of the same
\* base word have get_delta exactly 0.
C3_AccentCaseVariantsDeltaZero ==
    (/\ ret.op = "get_delta"
     /\ BaseWord(arg_a) = BaseWord(arg_b)
     /\ BaseWord(arg_a) # <<>>)
    => (ret.delta.raised = "" /\ ret.delta.num = 0)

C3_Witness ==
    /\ ret.op = "get_delta"
    /\ arg_a = <<"Alpha_tonos", "lambda">>
    /\ arg_b = <<"alpha", "lambda", "tonos">>
    /\ ret.delta.raised = ""
    /\ ret.delta.num = 0

-----------------------------------------------------------------------------
(* highlight_synonyms applied to bounded inputs *)

SentenceAlphabet == {"alpha", "lambda", " ", "."}

Sentences == StringsUpTo(SentenceAlphabet, MaxSentenceLen)

\* a synonym may be the empty string: "".split(", ") is [""]
Synonyms == StringsUpTo({"alpha", "lambda"}, MaxSynonymLen)

SynonymSets == { S \in SUBSET Synonyms : Cardinality(S) <= MaxSynonyms }

InitHighlight ==
    /\ hl_sentence \in Sentences
    /\ hl_synonyms \in SynonymSets
    /\ hl_ret = NoHighlight
    /\ IdleLcs
    /\ IdleEmbed
    /\ IdleTempl
    /\ IdleMore

CallHighlight ==
    /\ ~hl_ret.called
    /\ \E r \in highlight_synonyms(hl_sentence, hl_synonyms) :
           hl_ret' = [called |-> TRUE, raised |-> r.raised, value |-> r.value]
    /\ UNCHANGED <<hl_sentence, hl_synonyms, lcs_vars, te_vars, tw_vars, more_vars>>

NextHighlight == CallHighlight

SpecHighlight == InitHighlight /\ [][NextHighlight]_vars

\* the token's punctuation-stripped form is within 0.3 of some synonym
TokenMatches(token, synonyms) ==
    \E reference \in synonyms :
        LET dif == get_delta(StripPunctuation(token), reference)
        IN  dif.raised = "" /\ DeltaAtMostThreshold(dif)

\* a matching token wrapped once: the whole token, or its stripped form
\* inside the token
WrappedOnce(token) ==
    { Emphasis(token),
      Replace(token, StripPunctuation(token),
              Emphasis(StripPunctuation(token))) }

\* C4: highlight_synonyms wraps in '**' exactly the tokens whose stripped
\* form is within 0.3 of a synonym, each once, and leaves every other token
\* of the sentence unchanged.
C4_HighlightWrapsExactlyMatchingTokens ==
    (hl_ret.called /\ hl_ret.raised = "") =>
        LET before == Split(hl_sentence)
            after == Split(hl_ret.value)
        IN  /\ Len(after) = Len(before)
            /\ \A i \in DOMAIN before :
                   IF TokenMatches(before[i], hl_synonyms)
                   THEN after[i] \in WrappedOnce(before[i])
                   ELSE after[i] = before[i]

-----------------------------------------------------------------------------
(* Wordref.try_fetch_embed applied to one page *)

InitEmbed ==
    /\ te_self \in { WordrefOf(cmd) : cmd \in Commands }
    /\ te_page \in Pages
    /\ te_out = NoCall
    /\ IdleLcs
    /\ IdleHighlight
    /\ IdleTempl
    /\ IdleMore

CallTryFetchEmbed ==
    /\ ~te_out.called
    /\ \E o \in try_fetch_embed(te_self, te_page) :
          /\ te_out' = [called |-> TRUE, raised |-> o.raised,
                        word |-> o.word, entry |-> o.entry,
                        result |-> o.result]
          /\ te_self' = [te_self EXCEPT !.word = o.word]
    /\ UNCHANGED <<te_page, lcs_vars, hl_vars, tw_vars, more_vars>>

NextEmbed == CallTryFetchEmbed

SpecEmbed == InitEmbed /\ [][NextEmbed]_vars

\* C5: try_fetch_embed never returns an embed of size 2000 or more; when the
\* embed built from a valid entry has size 2000 or more it returns None, and
\* an embed it returns is the whole embed built, never a shortened one.
C5_NoOversizeEmbedReturned ==
    te_out.called =>
        /\ te_out.result.some =>
              /\ EmbedLen(te_out.result) < 2000
              /\ te_out.result = te_out.entry.embed
        /\ (te_out.raised = "" /\ te_out.entry.embed.some
            /\ EmbedLen(te_out.entry.embed) >= 2000)
           => te_out.result = NoEmbed

\* an embed of size exactly 2000 was built and None was returned
C5_Witness ==
    /\ te_out.called
    /\ te_out.raised = ""
    /\ te_out.entry.embed.some
    /\ EmbedLen(te_out.entry.embed) = 2000
    /\ te_out.result = NoEmbed

\* C6: when the entry is not valid try_fetch_embed returns None and builds no
\* embed, and it returns an embed only when is_valid_entry and is_valid_embed
\* both hold.  (get_embed may swap gr_word with en_word and the sides of the
\* sentences; is_valid_entry reads them symmetrically, so its value on the
\* entry left by the call is its value when the call read it.)
C6_InvalidEntryNeverRendered ==
    (te_out.called /\ te_out.raised = "") =>
        /\ ~is_valid_entry(te_out.entry) =>
              (te_out.result = NoEmbed /\ ~te_out.entry.embed.some)
        /\ te_out.result.some =>
              /\ is_valid_entry(te_out.entry)
              /\ is_valid_embed(te_out.entry)

\* a page with a headword row but too few sentences gave an invalid entry,
\* no embed and None
C6_Witness ==
    /\ te_out.called
    /\ te_out.raised = ""
    /\ te_out.entry.en_synonyms # {}
    /\ ~is_valid_entry(te_out.entry)
    /\ ~te_out.entry.embed.some
    /\ te_out.result = NoEmbed

\* the entry has source words and target words
HasWords(entry) ==
    /\ entry.link # <<>>
    /\ Truthy(entry.gr_word)
    /\ Truthy(entry.en_word)
    /\ entry.gr_synonyms # {}
    /\ entry.en_synonyms # {}

\* try_fetch_embed judged the entry valid: it went on to build the embed
JudgedValid == te_out.entry.embed.some

Malformed(page) ==
    /\ page.status = "ok"
    /\ \/ page.tables = <<>>
       \/ ~Head(Head(page.tables)).FrWrd.present

\* C10: a page without the expected structure is an empty result:
\* try_fetch_entry raises nothing and returns an entry that is judged
\* invalid, so try_fetch_embed returns None.
C10_MalformedPageIsEmptyResult ==
    (te_out.called /\ Malformed(te_page)) =>
        /\ te_out.raised = ""
        /\ ~is_valid_entry(te_out.entry)
        /\ te_out.result = NoEmbed

\* C11: every element of entry.sentences after the rows were scanned is a
\* pair of a non-empty Greek sentence and a non-empty English sentence (so
\* the entry holds as many examples in one language as in the other), and
\* the notice of a missing translation is in none of them.
C11_SentencesArePairsWithoutNotice ==
    (te_out.called /\ te_out.raised = "") =>
        \A i \in DOMAIN te_out.entry.sentences :
            LET pair == te_out.entry.sentences[i]
            IN  /\ Len(pair) = 2
                /\ pair[1] # <<>>
                /\ pair[2] # <<>>
                /\ ~IsSubstr(NOT_TRANSLATION, pair[1])
                /\ ~IsSubstr(NOT_TRANSLATION, pair[2])

\* an example whose translation is the notice was scanned and left no pair
C11_Witness ==
    /\ te_out.called
    /\ te_out.raised = ""
    /\ te_page = OkPage(<< <<WordRow, ExampleRow, NotTranslatedRow>> >>)
    /\ te_out.entry.sentences = <<>>


\* the spoiler marker of Discord
Spoiler == <<"|", "|">>

\* s is one text between two spoiler markers
Wrapped(s) ==
    /\ Len(s) >= 4
    /\ SubSeq(s, 1, 2) = Spoiler
    /\ SubSeq(s, Len(s) - 1, Len(s)) = Spoiler
    /\ "|" \notin Range(SubSeq(s, 3, Len(s) - 2))

\* s has no spoiler marker
Unmarked(s) == "|" \notin Range(s)

\* the lines of the description of the embed returned
DescriptionLines == SplitOn(te_out.result.description, <<"LF">>)

\* the sentence pairs the description shows
ShownPairs ==
    IF Len(te_out.entry.sentences) <= te_out.entry.max_sentences_shown
    THEN Len(te_out.entry.sentences)
    ELSE te_out.entry.max_sentences_shown

\* C14: with hide_words the description has the translation and the second
\* (target-language) sentence of every pair shown between spoiler markers,
\* and the title (the headword) and the first (source-language) sentence of
\* every pair without one; without hide_words the embed has no spoiler
\* marker at all.
C14_SpoilersAroundTranslationAndTargetSentences ==
    (te_out.called /\ te_out.result.some) =>
        IF te_self.hide_words
        THEN /\ Unmarked(te_out.result.title)
             /\ Drop(DescriptionLines[1], 18)
                    = Spoiler \o Format(te_out.entry.en_word) \o Spoiler
             /\ Wrapped(Drop(DescriptionLines[1], 18))
             /\ Len(DescriptionLines)
                    = IF ShownPairs = 0 THEN 2 ELSE 3 + 2 * ShownPairs
             /\ \A i \in 1..ShownPairs :
                    /\ Unmarked(DescriptionLines[2 * i + 1])
                    /\ Wrapped(Drop(DescriptionLines[2 * i + 2], 5))
        ELSE /\ Unmarked(te_out.result.title)
             /\ Unmarked(te_out.result.description)

\* wotden (hide_words, gr_en false) returned an embed that shows a pair
C14_Witness ==
    /\ te_out.called
    /\ te_out.result.some
    /\ te_self.hide_words
    /\ ~te_self.gr_en
    /\ ShownPairs >= 1

\* the entry has the four options of the Wordref
SameOptions(entry, self) ==
    /\ entry.gr_en = self.gr_en
    /\ entry.hide_words = self.hide_words
    /\ entry.min_sentences_shown = self.min_sentences_shown
    /\ entry.max_sentences_shown = self.max_sentences_shown

\* C16: the entry try_fetch_entry returns has the gr_en, hide_words,
\* min_sentences_shown and max_sentences_shown of the Wordref, and the entry
\* left by the whole of try_fetch_embed (the rows scanned, the validity
\* asked, the embed built) still has them.
C16_OptionsCarriedUnchanged ==
    /\ \A fetched \in try_fetch_entry(te_self, te_page) :
           fetched.raised = "" => SameOptions(fetched.entry, te_self)
    /\ (te_out.called /\ te_out.raised = "")
          => SameOptions(te_out.entry, te_self)

\* wotden built and returned an embed, the sides of the entry swapped
C16_Witness ==
    /\ te_out.called
    /\ te_out.raised = ""
    /\ ~te_self.gr_en
    /\ te_out.result.some
    /\ te_out.entry.sentences # <<>>

-----------------------------------------------------------------------------
(* main.py: the command handler templ_wordref *)

InitTempl ==
    /\ tw_cmd \in Commands
    /\ tw_pc = "fetch_embed"
    /\ tw_word = tw_cmd.word
    /\ tw_wordref = WordrefOf(tw_cmd)
    /\ tw_page = NoPage
    /\ tw_tries = <<>>
    /\ tw_embed = NoEmbed
    /\ tw_first = "pending"
    /\ tw_lookups = 0
    /\ tw_fixes = 0
    /\ tw_response = NoResponse
    /\ tw_exc = ""
    /\ tw_entry = NoEntry
    /\ IdleLcs
    /\ IdleHighlight
    /\ IdleEmbed
    /\ IdleMore

\* One call of try_fetch_embed inside wordref.fetch_embed(), at either of
\* its two places in templ_wordref, and what follows when fetch_embed
\* returns or the call raises.
FetchEmbed ==
    /\ tw_pc \in {"fetch_embed", "fetch_embed_again"}
    /\ \E page \in SitePages : \E o \in try_fetch_embed(tw_wordref, page) :
          LET tries == Append(tw_tries, o.result)
              fe == fetch_embed(tw_wordref, tries)
              first == tw_pc = "fetch_embed"
          IN  /\ tw_page' = page
              /\ tw_entry' = o.entry
              /\ tw_wordref' = [tw_wordref EXCEPT !.word = o.word]
              /\ tw_lookups' = IF tw_tries = <<>> THEN tw_lookups + 1
                               ELSE tw_lookups
              /\ IF o.raised # ""
                 THEN /\ tw_pc' = "raised"
                      /\ tw_exc' = o.raised
                      /\ tw_first' = IF first THEN "raised" ELSE tw_first
                      /\ UNCHANGED <<tw_tries, tw_embed>>
                 ELSE /\ tw_tries' = tries
                      /\ tw_exc' = tw_exc
                      /\ IF fe.returned
                         THEN /\ tw_embed' = fe.value
                              /\ tw_first' =
                                    IF ~first THEN tw_first
                                    ELSE IF fe.value.some THEN "embed"
                                    ELSE "none"
                              /\ tw_pc' =
                                    IF first /\ ~fe.value.some /\ tw_word.some
                                    THEN "fix_greek_spelling"
                                    ELSE "send_message"
                         ELSE UNCHANGED <<tw_embed, tw_first, tw_pc>>
    /\ UNCHANGED <<tw_cmd, tw_word, tw_fixes, tw_response, lcs_vars, hl_vars,
                   te_vars, more_vars>>

\* word = fix_greek_spelling(word) and the second Wordref(...)
FixGreekSpelling ==
    /\ tw_pc = "fix_greek_spelling"
    /\ \E page \in SitePages :
          LET fixed == fix_greek_spelling(tw_word.val, page)
          IN  /\ tw_page' = page
              /\ tw_fixes' = tw_fixes + 1
              /\ IF fixed.raised # ""
                 THEN /\ tw_pc' = "raised"
                      /\ tw_exc' = fixed.raised
                      /\ UNCHANGED <<tw_word, tw_wordref, tw_tries>>
                 ELSE /\ tw_pc' = "fetch_embed_again"
                      /\ tw_exc' = tw_exc
                      /\ tw_word' = Some(fixed.word)
                      /\ tw_wordref' =
                            Wordref(Some(fixed.word), tw_cmd.gr_en,
                                    tw_cmd.hide_words,
                                    tw_cmd.min_sentences_shown,
                                    tw_cmd.max_sentences_shown)
                      /\ tw_tries' = <<>>
    /\ UNCHANGED <<tw_cmd, tw_embed, tw_first, tw_lookups, tw_response,
                   tw_entry, lcs_vars, hl_vars, te_vars, more_vars>>

\* "The command did not succeed."
FAILURE_MESSAGE == <<"command_did_not_succeed">>

\* inter.response.send_message(...)
SendMessage ==
    /\ tw_pc = "send_message"
    /\ tw_response' =
          IF ~tw_embed.some
          THEN [sent |-> TRUE, content |-> FAILURE_MESSAGE, embed |-> NoEmbed]
          ELSE [sent |-> TRUE, content |-> <<>>, embed |-> tw_embed]
    /\ tw_pc' = "done"
    /\ UNCHANGED <<tw_cmd, tw_word, tw_wordref, tw_page, tw_tries, tw_embed,
                   tw_first, tw_lookups, tw_fixes, tw_exc, tw_entry, lcs_vars,
                   hl_vars, te_vars, more_vars>>

Next == FetchEmbed \/ FixGreekSpelling \/ SendMessage

Spec == InitTempl /\ [][Next]_vars

\* fetch_embed has returned to templ_wordref and was not called again
Returned == tw_pc \in {"fix_greek_spelling", "send_message", "done"}

\* C8: fetch_embed calls try_fetch_embed exactly once when a word was
\* supplied; in random mode it calls it at most max_random_iterations (5)
\* times, one after the other, goes on only after a None, returns the first
\* embed it gets, and returns None only when all 5 calls returned None.
C8_FetchEmbedAttempts ==
    LET n == Len(tw_tries)
    IN  /\ ~tw_wordref.is_random => n <= 1
        /\ tw_wordref.is_random => n <= 5
        /\ \A i \in 1..(n - 1) : tw_tries[i] = NoEmbed
        /\ Returned =>
              /\ n >= 1
              /\ tw_embed = tw_tries[n]
              /\ ~tw_wordref.is_random => n = 1
              /\ (tw_wordref.is_random /\ tw_embed = NoEmbed) => n = 5

\* a random lookup got its embed after some calls that returned None, and
\* stopped there
C8_Witness ==
    /\ tw_wordref.is_random
    /\ Returned
    /\ Len(tw_tries) > 1
    /\ Len(tw_tries) < 5
    /\ tw_embed.some

\* C9: a supplied word whose first lookup fails gets one call of
\* fix_greek_spelling and one more lookup, never more; a random lookup gets
\* no spelling correction; and the handler ends with a response sent, unless
\* the site refused a request.
C9_FailedLookupRetriedOnceThenResponds ==
    /\ tw_fixes <= 1
    /\ tw_lookups <= 2
    /\ ~tw_cmd.word.some => (tw_fixes = 0 /\ tw_lookups <= 1)
    /\ tw_pc = "done" =>
          /\ tw_response.sent
          /\ (tw_cmd.word.some /\ tw_first = "none") =>
                (tw_fixes = 1 /\ tw_lookups = 2)
          /\ tw_first = "embed" => (tw_fixes = 0 /\ tw_lookups = 1)
    /\ tw_pc = "raised" => tw_exc = "HTTPError"


\* the last try_fetch_embed built a valid entry whose embed is too long
OversizeRender ==
    /\ is_valid_entry(tw_entry)
    /\ tw_entry.embed.some
    /\ ~is_valid_embed(tw_entry)

\* C15: an oversize render of a valid entry is told apart from a word that
\* was not found: templ_wordref does not go on to the spelling correction
\* after one, and answers with the failure message.
C15_OversizeRenderIsNotRetried ==
    /\ (tw_pc = "fix_greek_spelling") => ~OversizeRender
    /\ (tw_pc = "done" /\ OversizeRender) => tw_response.content = FAILURE_MESSAGE

\* the sentence of a stored pair that stands for it: the English one in
\* gr_en mode, the Greek one otherwise (get_embed has swapped the sides of
\* the pairs of tw_entry when gr_en is false, so it is the second)
KeySentence(pair) == pair[2]

\* C20: after the rows of a page were scanned, entry.sentences has at most
\* one pair per English sentence in gr_en mode, and at most one per Greek
\* sentence otherwise, and has no pair twice.
C20_OnePairPerSentence ==
    (tw_lookups >= 1 /\ tw_exc = "") =>
        \A i, j \in DOMAIN tw_entry.sentences :
            i # j => /\ tw_entry.sentences[i] # tw_entry.sentences[j]
                     /\ KeySentence(tw_entry.sentences[i])
                            # KeySentence(tw_entry.sentences[j])

\* the group of row i of a table: a new group starts at every row whose
\* marker (even / odd) differs from the marker of the row before
GroupIndex(rows, i) ==
    Cardinality({ k \in 2..i : rows[k].cls # rows[k - 1].cls }) + 1

\* the pair is an example and a translation of two rows of one group
PairedWithinGroup(page, pair) ==
    \E t \in DOMAIN page.tables :
        \E i, j \in DOMAIN page.tables[t] :
            LET rows == page.tables[t]
            IN  /\ rows[i].FrEx.present
                /\ rows[j].ToEx.present
                /\ {CellText(rows[i].FrEx), CellText(rows[j].ToEx)}
                       = {pair[1], pair[2]}
                /\ GroupIndex(rows, i) = GroupIndex(rows, j)

\* C24: the rows of a table fall into groups at every change of the marker
\* (even / odd), and every sentence pair stored for a page is an example and
\* a translation from rows of the same group, never from two sides of a
\* change of marker.
C24_PairsWithinOneRowGroup ==
    (tw_lookups >= 1 /\ tw_exc = "") =>
        \A k \in DOMAIN tw_entry.sentences :
            PairedWithinGroup(tw_page, tw_entry.sentences[k])
-----------------------------------------------------------------------------
(* cogs/wordref/entry.py: the swap of Entry.get_embed *)

\* the entries try_fetch_entry returns for the commands and the pages
FetchedEntries ==
    UNION { UNION { { o.entry : o \in { x \in try_fetch_entry(WordrefOf(cmd),
                                                              page)
                                        : x.raised = "" } }
                    : page \in Pages \cup SitePages }
            : cmd \in Commands }

InitInvert ==
    /\ inv_orig \in FetchedEntries
    /\ inv_entry = inv_orig
    /\ inv_steps = 0
    /\ IdleOld
    /\ IdleParse
    /\ IdleForvo
    /\ IdleConcurrent
    /\ IdleLate

\* the else branch of "if self.gr_en" in Entry.get_embed
Invert ==
    /\ ~inv_entry.gr_en
    /\ inv_steps < MaxSwaps
    /\ inv_entry' = swap_gr_en(inv_entry)
    /\ inv_steps' = inv_steps + 1
    /\ UNCHANGED <<inv_orig, old_vars, pw_vars, fv_vars, cq_vars,
                   late_vars>>

NextInvert == Invert

SpecInvert == InitInvert /\ [][NextInvert]_vars

\* the sentence pairs with their two sides exchanged
SwappedPairs(sentences) ==
    [i \in DOMAIN sentences |-> <<sentences[i][2], sentences[i][1]>>]

\* C12: the swap exchanges the Greek word data with the English word data
\* (the headwords and the synonym sets) and the two sides of every sentence
\* pair, and the swap applied twice gives the entry back.
C12_InversionExchangesWordsAndExamples ==
    /\ inv_steps = 1 =>
          /\ inv_entry.gr_word = inv_orig.en_word
          /\ inv_entry.en_word = inv_orig.gr_word
          /\ inv_entry.gr_synonyms = inv_orig.en_synonyms
          /\ inv_entry.en_synonyms = inv_orig.gr_synonyms
          /\ inv_entry.sentences = SwappedPairs(inv_orig.sentences)
    /\ inv_steps = 2 => inv_entry = inv_orig

-----------------------------------------------------------------------------
(* cogs/wordref/wordref.py: the loop of parse_words, pass by pass *)

\* the pieces the texts are made of: words, blanks, separators and
\* annotations of both languages
Pieces ==
    { <<"a", "b">>, <<" ">>, <<",", " ">>, <<"+">>, <<"v", "i">>,
      <<"a", "d", "j">>, <<"epsilon", "pi", "iota_tonos", "theta">> }

RECURSIVE Concat(_)
Concat(pieces) ==
    IF pieces = <<>> THEN <<>> ELSE Head(pieces) \o Concat(Tail(pieces))

Texts == { Concat(pieces) : pieces \in StringsUpTo(Pieces, MaxPieces) }

InitParse ==
    /\ pw_input \in Texts
    /\ pw_attributes = attributes_of(pw_input)
    /\ pw_text = pw_input
    /\ pw_pc = "loop"
    /\ pw_passes = 0
    /\ pw_round = 1
    /\ pw_first = <<>>
    /\ IdleOld
    /\ IdleInvert
    /\ IdleForvo
    /\ IdleConcurrent
    /\ IdleLate

\* one pass of the loop, and the break
Pass ==
    /\ pw_pc = "loop"
    /\ pw_text' = strip_pass(pw_text, pw_attributes)
    /\ pw_passes' = pw_passes + 1
    /\ pw_pc' = IF loop_exits(pw_text, pw_text') THEN "done" ELSE "loop"
    /\ UNCHANGED <<pw_input, pw_attributes, pw_round, pw_first, old_vars,
                   inv_vars, fv_vars, cq_vars,
                   late_vars>>

\* parse_words called on the text the first call ended with
Reapply ==
    /\ pw_pc = "done"
    /\ pw_round = 1
    /\ pw_first' = pw_text
    /\ pw_attributes' = attributes_of(pw_text)
    /\ pw_passes' = 0
    /\ pw_round' = 2
    /\ pw_pc' = "loop"
    /\ UNCHANGED <<pw_input, pw_text, old_vars, inv_vars, fv_vars,
                   cq_vars,
                   late_vars>>

NextParse == Pass \/ Reapply

SpecParse == InitParse /\ [][NextParse]_vars

\* the text the call under way started with
StartText == IF pw_round = 1 THEN pw_input ELSE pw_first

\* every pass but the last makes the text shorter, so the loop ends after
\* at most len(text) + 1 passes
PassesShorten ==
    Len(pw_text) + pw_passes
        <= Len(StartText) + (IF pw_pc = "done" THEN 1 ELSE 0)

\* C13 as stated: the loop ends for every text, and the text a call ends
\* with is left unchanged by a second call.
C13_StrippingTerminatesAndIsIdempotent ==
    /\ PassesShorten
    /\ (pw_round = 2 /\ pw_pc = "done") => pw_text = pw_first

\* C13 amended: the loop ends for every text, and the text a call ends with
\* is left unchanged by a second call that chooses the same attribute list,
\* that is, when is_english says the same of it as of the input.
C13_StrippingTerminatesAndIsIdempotentPerLanguage ==
    /\ PassesShorten
    /\ (pw_round = 2 /\ pw_pc = "done"
        /\ is_english(pw_first) = is_english(pw_input))
       => (pw_text = pw_first /\ pw_passes = 1)

\* a text lost an annotation in the first call, and the second call has
\* ended
C13_Witness ==
    /\ pw_round = 2
    /\ pw_pc = "done"
    /\ is_english(pw_first) = is_english(pw_input)
    /\ Len(pw_first) < Len(pw_input)
    /\ pw_first # <<>>

\* C22: parse_words returns no empty string among its candidate words,
\* whatever the text (empty, or annotations, '+' and blanks only): neither
\* the split of the text the loop ended with nor parse_words of the input
\* holds one.
C22_NoEmptyCandidateWord ==
    (pw_pc = "done" /\ pw_round = 1) =>
        /\ <<>> \notin Range(SplitOn(pw_text, <<",", " ">>))
        /\ <<>> \notin Range(parse_words(pw_input))

-----------------------------------------------------------------------------
(* main.py: the command handler forvo *)

ItemKinds == {"ok", "skipped", "broken", "no_id"}

\* the answers of forvo.com to the first GET of a lookup
ForvoResponses ==
    { ForvoResponse(status, <<>>, FALSE, <<>>) : status \in {403, 404, 500} }
    \cup { ForvoResponse(200, langs, FALSE, <<>>)
           : langs \in { <<>>, <<"en">>, <<"el">>, <<"en", "el">> } }
    \cup { ForvoResponse(200, langs, TRUE, items)
           : langs \in { <<"el">>, <<"en", "el">> },
             items \in StringsUpTo(ItemKinds, MaxItems) }

\* the answers to the GETs fetch_soup makes after the first
LaterResponses ==
    { <<ForvoResponse(403, <<>>, FALSE, <<>>),
        ForvoResponse(403, <<>>, FALSE, <<>>)>>,
      <<ForvoResponse(200, <<"el">>, TRUE, <<"ok">>),
        ForvoResponse(200, <<"el">>, TRUE, <<"ok">>)>> }

\* the word the user gives the command: unaccented or accented
ForvoWords == { TypedWord, <<"alpha_tonos", "lambda">> }

InitForvo ==
    /\ fv_word \in ForvoWords
    /\ fv_pc = "get_pronunciation"
    /\ fv_lookups = <<>>
    /\ fv_fixes = 0
    /\ fv_result = NoPronunciation
    /\ fv_responses = <<>>
    /\ fv_exc = ""
    /\ IdleOld
    /\ IdleInvert
    /\ IdleParse
    /\ IdleConcurrent
    /\ IdleLate

\* message, audio_file = pronunciation.get_pronunciation(word), at either
\* of its two places, and the except clause that follows it
GetPronunciation ==
    /\ fv_pc \in {"get_pronunciation", "get_pronunciation_again"}
    /\ \E response \in ForvoResponses : \E later \in LaterResponses :
       \E o \in get_pronunciation(fv_word, <<response>> \o later) :
          /\ fv_lookups' = Append(fv_lookups,
                                  [word |-> fv_word, response |-> response,
                                   raised |-> o.raised])
          /\ fv_result' = o
          /\ IF o.raised = ""
             THEN fv_pc' = "send_file" /\ fv_exc' = fv_exc
             ELSE IF o.raised = "NotFoundError"
             THEN /\ fv_pc' = IF fv_pc = "get_pronunciation"
                              THEN "fix_greek_spelling"
                              ELSE "send_not_found"
                  /\ fv_exc' = fv_exc
             ELSE fv_pc' = "raised" /\ fv_exc' = o.raised
    /\ UNCHANGED <<fv_word, fv_fixes, fv_responses, old_vars, inv_vars,
                   pw_vars, cq_vars,
                   late_vars>>

\* word = fix_greek_spelling(word)
ForvoFixGreekSpelling ==
    /\ fv_pc = "fix_greek_spelling"
    /\ \E page \in SitePages :
          LET fixed == fix_greek_spelling(fv_word, page)
          IN  /\ fv_fixes' = fv_fixes + 1
              /\ IF fixed.raised # ""
                 THEN /\ fv_pc' = "raised"
                      /\ fv_exc' = fixed.raised
                      /\ fv_word' = fv_word
                 ELSE /\ fv_pc' = "get_pronunciation_again"
                      /\ fv_exc' = fv_exc
                      /\ fv_word' = fixed.word
    /\ UNCHANGED <<fv_lookups, fv_result, fv_responses, old_vars, inv_vars,
                   pw_vars, cq_vars,
                   late_vars>>

\* f"Could not find the word {word}!"
COULD_NOT_FIND(word) ==
    <<"C", "o", "u", "l", "d", " ", "n", "o", "t", " ", "f", "i", "n", "d",
      " ", "t", "h", "e", " ", "w", "o", "r", "d", " ">> \o word \o <<"!">>

\* await inter.response.send_message(f"Could not find the word {word}!")
SendNotFound ==
    /\ fv_pc = "send_not_found"
    /\ fv_responses' =
          Append(fv_responses,
                 [content |-> COULD_NOT_FIND(fv_word), file |-> <<>>,
                  filename |-> <<>>])
    /\ fv_pc' = "done"
    /\ UNCHANGED <<fv_word, fv_lookups, fv_fixes, fv_result, fv_exc,
                   old_vars, inv_vars, pw_vars, cq_vars,
                   late_vars>>

\* file = discord.File(...) and
\* await inter.response.send_message(file=file, content=message)
SendFile ==
    /\ fv_pc = "send_file"
    /\ fv_responses' =
          Append(fv_responses,
                 [content |-> fv_result.message,
                  file |-> fv_result.audio_file,
                  filename |-> fv_word \o <<".", "m", "p", "3">>])
    /\ fv_pc' = "done"
    /\ UNCHANGED <<fv_word, fv_lookups, fv_fixes, fv_result, fv_exc,
                   old_vars, inv_vars, pw_vars, cq_vars,
                   late_vars>>

NextForvo ==
    GetPronunciation \/ ForvoFixGreekSpelling \/ SendNotFound \/ SendFile

SpecForvo == InitForvo /\ [][NextForvo]_vars

\* forvo.com answered 404, or with a page without a container for Greek
NoPageOrNoContainer(response) ==
    \/ response.status = 404
    \/ response.status = 200 /\ "el" \notin Range(response.langs)

\* C17: a lookup of a word for which forvo.com answers 404, or a page with
\* no language container for Greek, ends with NotFoundError and with no
\* other exception.
C17_MissingPronunciationIsNotFoundError ==
    \A i \in DOMAIN fv_lookups :
        NoPageOrNoContainer(fv_lookups[i].response) =>
            /\ fv_lookups[i].raised = "NotFoundError"
            /\ \A later \in LaterResponses :
                  \A a \in get_forvo_pronunciation_audio(
                              fv_lookups[i].word,
                              <<fv_lookups[i].response>> \o later) :
                      a.raised = "NotFoundError"

\* a lookup got 404, and the next a page with English only
C17_Witness ==
    /\ Len(fv_lookups) = 2
    /\ fv_lookups[1].response.status = 404
    /\ fv_lookups[2].response.status = 200
    /\ fv_lookups[2].response.langs = <<"en">>
    /\ fv_lookups[2].raised = "NotFoundError"

\* C18: the handler looks the pronunciation up at most twice, the second
\* time only after the first raised NotFoundError and with the word
\* fix_greek_spelling returned; when the second raises NotFoundError too the
\* one message sent is "Could not find the word ...!"; and whatever happens
\* the handler ends with exactly one message sent.
C18_AtMostTwoLookupsOneResponse ==
    /\ Len(fv_lookups) <= 2
    /\ Len(fv_lookups) = 2 =>
          /\ fv_lookups[1].raised = "NotFoundError"
          /\ fv_fixes = 1
          /\ fv_lookups[2].word = fv_word
    /\ (fv_pc = "done" /\ Len(fv_lookups) = 2
        /\ fv_lookups[2].raised = "NotFoundError")
       => fv_responses = <<[content |-> COULD_NOT_FIND(fv_word),
                            file |-> <<>>, filename |-> <<>>]>>
    /\ Len(fv_responses) <= 1
    /\ fv_pc \in {"done", "raised"} => Len(fv_responses) = 1

-----------------------------------------------------------------------------
(* Two calls of Wordref.try_fetch_embed, each on its own Wordref, their
   steps interleaved.  The sets and the list of an Entry are objects on a
   heap; an Entry holds their addresses. *)

\* an Entry.__post_init__ that gives every Entry the same two sets and the
\* same list
post_init_shared(heap) ==
    IF Len(heap) >= 3
    THEN [heap |-> heap, gr_synonyms |-> 1, en_synonyms |-> 2,
          sentences |-> 3]
    ELSE [heap |-> heap \o <<{}, {}, <<>>>>,
          gr_synonyms |-> Len(heap) + 1,
          en_synonyms |-> Len(heap) + 2,
          sentences |-> Len(heap) + 3]

\* Entry.__post_init__: set(), set() and [] are new objects
__post_init__(heap) ==
    [heap |-> heap \o <<{}, {}, <<>>>>,
     gr_synonyms |-> Len(heap) + 1,
     en_synonyms |-> Len(heap) + 2,
     sentences |-> Len(heap) + 3]

\* the entry with the objects in the place of their addresses
Deref(entry, heap) ==
    [entry EXCEPT !.gr_synonyms = heap[@], !.en_synonyms = heap[@],
                  !.sentences = heap[@]]

\* the entry `entry` after the method that made `value` of Deref(entry, heap)
\* changed its scalar fields
Scalars(entry, value) ==
    [value EXCEPT !.gr_synonyms = entry.gr_synonyms,
                  !.en_synonyms = entry.en_synonyms,
                  !.sentences = entry.sentences]

\* the heap after the objects of `entry` were changed into those of `value`
Mutated(entry, value, heap) ==
    [a \in DOMAIN heap |->
        IF a = entry.sentences THEN value.sentences
        ELSE IF a = entry.en_synonyms THEN value.en_synonyms
        ELSE IF a = entry.gr_synonyms THEN value.gr_synonyms
        ELSE heap[a]]

\* the commands and the pages of the two calls
ConcurrentCommands == { cmd \in Commands : cmd.name \in {"searchgr", "wotden"} }

ConcurrentPages ==
    { HttpErrorPage,
      OkPage(<<>>),
      OkPage(<< <<WordRow, ExampleRow, TranslatedRow>> >>),
      OkPage(<< <<EnglishFirstRow, ExampleRow, OtherTranslatedRow>>,
                <<WordRow, ExampleRow, TranslatedRow>> >>) }

Tasks == {1, 2}

InitConcurrent ==
    /\ cq_heap = <<>>
    /\ cq_task \in [Tasks ->
          { [pc |-> "try_fetch_entry", self |-> WordrefOf(cmd),
             page |-> page, k |-> 1, entry |-> NoEntry, raised |-> "",
             result |-> NoEmbed]
            : cmd \in ConcurrentCommands, page \in ConcurrentPages }]
    /\ IdleOld
    /\ IdleInvert
    /\ IdleParse
    /\ IdleForvo
    /\ IdleLate

\* Wordref.try_fetch_entry up to "entry = Entry(...)"
CreateEntry(t) ==
    LET task == cq_task[t]
        accented == fetch_accented_word(task.page)
        new_url == BASE_URL \o <<"/", "g", "r", "e", "n", "/">>
                   \o accented.word
        made == __post_init__(cq_heap)
        entry == [Entry(new_url, Some(accented.word), task.self.gr_en,
                        task.self.hide_words,
                        task.self.min_sentences_shown,
                        task.self.max_sentences_shown, task.self.is_random)
                  EXCEPT !.gr_synonyms = made.gr_synonyms,
                         !.en_synonyms = made.en_synonyms,
                         !.sentences = made.sentences]
    IN  /\ task.pc = "try_fetch_entry"
        /\ IF task.page.status # "ok"
           THEN /\ cq_task' = [cq_task EXCEPT ![t].pc = "raised",
                                              ![t].raised = "HTTPError"]
                /\ cq_heap' = cq_heap
           ELSE IF accented.raised # ""
           THEN /\ cq_task' = [cq_task EXCEPT ![t].pc = "raised",
                                              ![t].raised = accented.raised]
                /\ cq_heap' = cq_heap
           ELSE /\ cq_task' = [cq_task EXCEPT
                                  ![t].pc = "try_fetch_word",
                                  ![t].self.word = Some(accented.word),
                                  ![t].entry = entry]
                /\ cq_heap' = made.heap
        /\ UNCHANGED <<old_vars, inv_vars, pw_vars, fv_vars,
                   late_vars>>

\* self.try_fetch_word(res, entry) on table k
TryFetchWord(t) ==
    LET task == cq_task[t]
        value == try_fetch_word(task.page.tables[task.k],
                                Deref(task.entry, cq_heap))
    IN  /\ task.pc = "try_fetch_word"
        /\ cq_heap' = Mutated(task.entry, value, cq_heap)
        /\ cq_task' = [cq_task EXCEPT
                          ![t].pc = "try_fetch_sentence_pairs",
                          ![t].entry = Scalars(task.entry, value)]
        /\ UNCHANGED <<old_vars, inv_vars, pw_vars, fv_vars,
                   late_vars>>

\* self.try_fetch_sentence_pairs(res, entry) on table k, and the end of the
\* loop over the tables
TryFetchSentencePairs(t) ==
    LET task == cq_task[t]
    IN  /\ task.pc = "try_fetch_sentence_pairs"
        /\ \E value \in try_fetch_sentence_pairs(
                            task.page.tables[task.k],
                            Deref(task.entry, cq_heap), task.self.gr_en,
                            task.self.word) :
              /\ cq_heap' = Mutated(task.entry, value, cq_heap)
              /\ cq_task' = [cq_task EXCEPT
                                ![t].pc = IF task.k < Len(task.page.tables)
                                          THEN "try_fetch_word"
                                          ELSE "is_valid_entry",
                                ![t].k = task.k + 1]
        /\ UNCHANGED <<old_vars, inv_vars, pw_vars, fv_vars,
                   late_vars>>

\* the rest of Wordref.try_fetch_embed: is_valid_entry, add_embed (whose
\* sort makes self.sentences a new list), is_valid_embed and the return
Render(t) ==
    LET task == cq_task[t]
        value == Deref(task.entry, cq_heap)
    IN  /\ task.pc = "is_valid_entry"
        /\ IF ~is_valid_entry(value)
           THEN /\ cq_task' = [cq_task EXCEPT ![t].pc = "done"]
                /\ cq_heap' = cq_heap
           ELSE \E added \in add_embed(value) :
                   /\ cq_heap' = Append(cq_heap, added.entry.sentences)
                   /\ cq_task' =
                         [cq_task EXCEPT
                             ![t].pc = IF added.raised # "" THEN "raised"
                                       ELSE "done",
                             ![t].raised = added.raised,
                             ![t].entry =
                                 [Scalars(task.entry, added.entry)
                                  EXCEPT !.sentences = Len(cq_heap) + 1],
                             ![t].result =
                                 IF added.raised = ""
                                    /\ is_valid_embed(added.entry)
                                 THEN added.entry.embed ELSE NoEmbed]
        /\ UNCHANGED <<old_vars, inv_vars, pw_vars, fv_vars,
                   late_vars>>

NextConcurrent ==
    \E t \in Tasks :
        \/ CreateEntry(t)
        \/ TryFetchWord(t)
        \/ TryFetchSentencePairs(t)
        \/ Render(t)

SpecConcurrent == InitConcurrent /\ [][NextConcurrent]_vars

\* the Wordref of task t as it was constructed
Constructed(t) ==
    CHOOSE self \in { WordrefOf(cmd) : cmd \in ConcurrentCommands } :
        /\ self.gr_en = cq_task[t].self.gr_en
        /\ self.hide_words = cq_task[t].self.hide_words

\* what try_fetch_embed raises, returns and leaves in its entry when it
\* runs alone
Alone(self, page) ==
    { [raised |-> o.raised, result |-> o.result, entry |-> o.entry]
      : o \in try_fetch_embed(self, page) }

\* C19: two lookups whose steps interleave, each on its own Wordref, share
\* no set and no list (the addresses their entries hold are different), and
\* each ends as it can end when it runs alone, whatever the other does or
\* raises.
C19_InterleavedLookupsAreIndependent ==
    /\ (cq_task[1].entry # NoEntry /\ cq_task[2].entry # NoEntry) =>
          {cq_task[1].entry.gr_synonyms, cq_task[1].entry.en_synonyms,
           cq_task[1].entry.sentences}
          \cap {cq_task[2].entry.gr_synonyms, cq_task[2].entry.en_synonyms,
                cq_task[2].entry.sentences} = {}
    /\ \A t \in Tasks :
          cq_task[t].pc \in {"done", "raised"} =>
              \/ /\ cq_task[t].entry = NoEntry
                 /\ \E o \in Alone(Constructed(t), cq_task[t].page) :
                       o.raised = cq_task[t].raised /\ o.raised # ""
              \/ /\ cq_task[t].entry # NoEntry
                 /\ [raised |-> cq_task[t].raised,
                     result |-> cq_task[t].result,
                     entry |-> Deref(cq_task[t].entry, cq_heap)]
                    \in Alone(Constructed(t), cq_task[t].page)

\* two lookups ran interleaved to their embeds: the one that made its entry
\* second rendered first, on a page of two tables
C19_Witness ==
    /\ cq_task[1].pc = "done"
    /\ cq_task[2].pc = "done"
    /\ cq_task[1].result.some
    /\ cq_task[2].result.some
    /\ cq_task[1].entry.gr_synonyms = 1
    /\ cq_task[2].entry.gr_synonyms = 4
    /\ cq_task[2].entry.sentences = 7
    /\ cq_task[1].entry.sentences = 8
    /\ Len(cq_task[2].page.tables) = 2

-----------------------------------------------------------------------------
(* cogs/pronunciation/forvo.py: get_forvo_pronunciation_audio, GET by GET *)

InitSoup ==
    /\ fs_fv \in { Forvo(word, "el") : word \in ForvoWords }
    /\ fs_pc = "fetch_soup"
    /\ fs_gets = <<>>
    /\ fs_soup = NoSoup
    /\ fs_exc = ""
    /\ SoupOnly

\* one iteration of "for _ in range(3)" in Forvo.fetch_soup: the GET, the
\* break after a soup, the except clause; after the third iteration the
\* loop is left without a soup
FetchSoupAttempt ==
    /\ fs_pc = "fetch_soup"
    /\ Len(fs_gets) < 3
    /\ \E response \in ForvoResponses :
          LET r == _fetch_soup(fs_fv, response)
          IN  /\ fs_gets' = Append(fs_gets, response.status)
              /\ IF r.raised = ""
                 THEN /\ fs_soup' = [set |-> TRUE, soup |-> r.soup]
                      /\ fs_pc' = "get_pronunciations"
                      /\ fs_exc' = fs_exc
                 ELSE IF r.raised = "HTTPError" /\ response.status = 403
                 THEN /\ fs_soup' = fs_soup
                      /\ fs_pc' = IF Len(fs_gets') = 3
                                  THEN "get_pronunciations"
                                  ELSE "fetch_soup"
                      /\ fs_exc' = fs_exc
                 ELSE /\ fs_soup' = fs_soup
                      /\ fs_pc' = "raised"
                      /\ fs_exc' = r.raised
    /\ UNCHANGED <<fs_fv, fs_others>>

\* fv.get_pronunciations()
GetPronunciations ==
    /\ fs_pc = "get_pronunciations"
    /\ IF ~fs_soup.set
       THEN /\ fs_pc' = "raised"
            /\ fs_exc' = "AttributeError"
            /\ fs_fv' = fs_fv
       ELSE LET got == get_pronunciations(fs_fv, fs_soup.soup)
            IN  /\ fs_fv' = [fs_fv EXCEPT
                                !.pronunciations = got.pronunciations]
                /\ fs_pc' = IF got.raised = "" THEN "done" ELSE "raised"
                /\ fs_exc' = got.raised
    /\ UNCHANGED <<fs_gets, fs_soup, fs_others>>

NextSoup == FetchSoupAttempt \/ GetPronunciations

SpecSoup == InitSoup /\ [][NextSoup]_vars

\* C25: fetch_soup makes at most 3 GETs and makes another one exactly after
\* a GET answered with 403 Forbidden: a 403 before the third GET is followed
\* by a retry, a soup ends the loop, and any other failure leaves at once.
C25_RetriesOn403Only ==
    /\ Len(fs_gets) <= 3
    /\ \A k \in DOMAIN fs_gets : k < Len(fs_gets) => fs_gets[k] = 403
    /\ (fs_gets # <<>> /\ fs_gets[Len(fs_gets)] = 403 /\ Len(fs_gets) < 3)
          => (fs_pc = "fetch_soup" /\ fs_exc = "")
    /\ (fs_gets # <<>> /\ fs_gets[Len(fs_gets)] = 200) => fs_soup.set
    /\ (fs_gets # <<>> /\ fs_gets[Len(fs_gets)] \notin {200, 403})
          => fs_pc = "raised"

-----------------------------------------------------------------------------
(* cogs/wiktionary/wiktionary.py: fetch_conjugation, GET by GET *)

\* the words of the site
ConjWords ==
    { TypedWord, <<"alpha_tonos", "lambda">>, <<"lambda", "alpha">> }

\* frames of a conjugation table: the two voices, and an active voice with
\* a row missing
ActiveFrame == NavFrame(TRUE, VERB_VOICES[1], TRUE, 8)

PassiveFrame == NavFrame(TRUE, VERB_VOICES[2], TRUE, 8)

ShortFrame == NavFrame(TRUE, VERB_VOICES[1], TRUE, 7)

\* what a page can hold apart from its links: no conjugation header, the
\* standard table, a table with a row missing, the table of a defective
\* verb
ConjBodies ==
    { WikiPage(FALSE, <<>>, TRUE, <<>>, <<>>),
      WikiPage(TRUE, <<ActiveFrame, PassiveFrame>>, TRUE, <<8, 8>>, <<>>),
      WikiPage(TRUE, <<ShortFrame>>, TRUE, <<7>>, <<>>),
      WikiPage(TRUE, <<>>, TRUE, <<7>>, <<>>) }

\* the pages of the word asked for, and the pages of the other words
QueriedPages ==
    { [body EXCEPT !.suggestions = links]
      : body \in ConjBodies, links \in StringsUpTo(ConjWords, MaxSuggestions) }

\* a word only the pages of suggested words link to; its page parses
FarWord == <<"lambda", "alpha", "lambda">>

FarPage == WikiPage(TRUE, <<ActiveFrame, PassiveFrame>>, TRUE, <<8, 8>>, <<>>)

LinkedPages ==
    { [body EXCEPT !.suggestions = links]
      : body \in ConjBodies, links \in StringsUpTo({FarWord}, 1) }

InitConj ==
    /\ cj_word \in ConjWords
    /\ \E own \in QueriedPages : \E others \in [ConjWords -> LinkedPages] :
          cj_site = [w \in ConjWords \cup {FarWord} |->
                        IF w = cj_word THEN own
                        ELSE IF w = FarWord THEN FarPage
                        ELSE others[w]]
    /\ cj_pc = "fetch_conjugation"
    /\ cj_fetched = <<>>
    /\ cj_valid = <<>>
    /\ cj_result = NoConjugation
    /\ ConjOnly

\* query = WiktionaryQuery.create(word) and _fetch_conjugation(query) up to
\* its loop
FetchQueried ==
    /\ cj_pc = "fetch_conjugation"
    /\ LET query == WiktionaryQuery(cj_word, cj_site)
           res == _parse_conjugation(query)
           none == [state |-> "returned", raised |-> "", value |-> None,
                    word |-> <<>>]
       IN  /\ cj_fetched' = Append(cj_fetched, query.word)
           /\ IF res.raised # ""
              THEN /\ cj_result' = [state |-> "raised", raised |-> res.raised,
                                    value |-> None, word |-> <<>>]
                   /\ cj_pc' = "done"
                   /\ cj_valid' = cj_valid
              ELSE IF res.value.some
              THEN /\ cj_result' = [state |-> "returned", raised |-> "",
                                    value |-> res.value, word |-> query.word]
                   /\ cj_pc' = "done"
                   /\ cj_valid' = cj_valid
              ELSE \E order \in valid_suggestions(query) :
                      /\ cj_valid' = order
                      /\ IF order = <<>>
                         THEN /\ cj_result' = none
                              /\ cj_pc' = "done"
                         ELSE /\ cj_result' = cj_result
                              /\ cj_pc' = "suggestions"
    /\ UNCHANGED <<cj_word, cj_site, cj_others>>

\* one iteration of "for suggestion in valid_suggestions", and the end of
\* the function after the last
TrySuggestion ==
    /\ cj_pc = "suggestions"
    /\ LET suggestion == Head(cj_valid)
           new_query == WiktionaryQuery(suggestion, cj_site)
           res == _parse_conjugation(new_query)
           none == [state |-> "returned", raised |-> "", value |-> None,
                    word |-> <<>>]
       IN  /\ cj_fetched' = Append(cj_fetched, new_query.word)
           /\ cj_valid' = Tail(cj_valid)
           /\ IF res.raised # ""
              THEN /\ cj_result' = [state |-> "raised", raised |-> res.raised,
                                    value |-> None, word |-> <<>>]
                   /\ cj_pc' = "done"
              ELSE IF res.value.some
              THEN /\ cj_result' = [state |-> "returned", raised |-> "",
                                    value |-> res.value, word |-> new_query.word]
                   /\ cj_pc' = "done"
              ELSE IF Tail(cj_valid) = <<>>
              THEN /\ cj_result' = none
                   /\ cj_pc' = "done"
              ELSE /\ cj_result' = cj_result
                   /\ cj_pc' = "suggestions"
    /\ UNCHANGED <<cj_word, cj_site, cj_others>>

NextConj == FetchQueried \/ TrySuggestion

SpecConj == InitConj /\ [][NextConj]_vars

\* the distinct suggestions of the page asked for, the word itself left out
DistinctSuggestions == Range(cj_site[cj_word].suggestions) \ {cj_word}

\* the page of the word has a conjugation _parse_conjugation returns
PageParses(word) ==
    LET res == _parse_conjugation(WiktionaryQuery(word, cj_site))
    IN  res.raised = "" /\ res.value.some

\* C26: fetch_conjugation returns the conjugation of the page asked for
\* when that parses; otherwise it fetches distinct suggestions other than
\* the word, each at most once and none of their own suggestions, returns
\* the conjugation of the first fetched one that parses and None when it
\* has fetched them all and none parses; it makes at most 1 + (number of
\* distinct suggestions) GETs and every step uses up one of them.
C26_SuggestionsTriedOnceEach ==
    /\ Len(cj_fetched) <= 1 + Cardinality(DistinctSuggestions)
    /\ \A i \in DOMAIN cj_fetched :
          /\ i = 1 => cj_fetched[i] = cj_word
          /\ i > 1 => cj_fetched[i] \in DistinctSuggestions
          /\ \A j \in DOMAIN cj_fetched : cj_fetched[i] = cj_fetched[j] => i = j
    /\ cj_pc = "suggestions" =>
          /\ cj_valid # <<>>
          /\ Len(cj_fetched) + Len(cj_valid)
                 = 1 + Cardinality(DistinctSuggestions)
    /\ (cj_pc = "done" /\ cj_result.state = "returned") =>
          IF PageParses(cj_word)
          THEN /\ cj_fetched = <<cj_word>>
               /\ cj_result.value.some
               /\ cj_result.word = cj_word
          ELSE /\ \A i \in 1..(Len(cj_fetched) - 1) :
                      ~PageParses(cj_fetched[i])
               /\ IF cj_result.value.some
                  THEN /\ cj_result.word = cj_fetched[Len(cj_fetched)]
                       /\ Len(cj_fetched) > 1
                       /\ PageParses(cj_result.word)
                  ELSE /\ Range(cj_fetched)
                              = {cj_word} \cup DistinctSuggestions
                       /\ \A w \in Range(cj_fetched) : ~PageParses(w)

\* the page asked for did not parse, the first suggestion fetched did not
\* either and links a word whose page parses, the second did and was
\* returned
C26_Witness ==
    /\ cj_pc = "done"
    /\ cj_result.state = "returned"
    /\ cj_result.value.some
    /\ Len(cj_fetched) = 3
    /\ cj_result.word = cj_fetched[3]
    /\ FarWord \in Range(cj_site[cj_fetched[2]].suggestions)
    /\ PageParses(FarWord)

-----------------------------------------------------------------------------
(* cogs/wiktionary/wiktionary.py: _parse_conjugation_table_one on a page *)

\* further frames: the translations, a frame without a NavHead, and a
\* passive voice with a row too many
TranslationsFrame == NavFrame(TRUE, "Metafraseis", TRUE, 3)

HeadlessFrame == NavFrame(FALSE, "", TRUE, 8)

LongFrame == NavFrame(TRUE, VERB_VOICES[2], TRUE, 17)

FrameChoices ==
    { ActiveFrame, PassiveFrame, ShortFrame, TranslationsFrame,
      HeadlessFrame, LongFrame }

\* the pages with the conjugation header and at most MaxFrames NavFrames
VoicePages ==
    { WikiPage(TRUE, frames, TRUE, <<>>, <<>>)
      : frames \in StringsUpTo(FrameChoices, MaxFrames) }

InitVoices ==
    /\ \E page \in VoicePages :
          vt_query = [word |-> TypedWord, soup |-> page]
    /\ vt_out = NoVoices
    /\ VoicesOnly

CallTableOne ==
    /\ ~vt_out.called
    /\ LET res == _parse_conjugation_table_one(vt_query)
       IN  vt_out' = [called |-> TRUE, raised |-> res.raised,
                      value |-> res.value]
    /\ UNCHANGED <<vt_query, vt_others>>

NextVoices == CallTableOne

SpecVoices == InitVoices /\ [][NextVoices]_vars

\* C28: the tenses read from a voice frame are stored under the title of
\* that frame, whatever NavFrames the page has, and no IndexError occurs.
C28_VoicesStoredUnderOwnTitle ==
    vt_out.called =>
        /\ vt_out.raised # "IndexError"
        /\ (vt_out.raised = "" /\ vt_out.value.some) =>
              \A voice \in DOMAIN vt_out.value.val :
                  vt_query.soup.frames[vt_out.value.val[voice].frame].title
                      = voice

-----------------------------------------------------------------------------
(* utils.py: the Pagination view, and get_page of the command conj *)

\* get_page of conj (main.py) for a list_contents of n pages: the index
\* page - 1 counts from the end when negative, and the total returned is n
get_page(page, n) ==
    IF page - 1 >= n \/ page - 1 < 0 - n
    THEN [raised |-> "IndexError", shown |-> 0, total |-> n]
    ELSE [raised |-> "", shown |-> IF page - 1 < 0 THEN n + page ELSE page,
          total |-> n]

\* Pagination.update_buttons: children[0].disabled, children[1].disabled
update_buttons(index, total_pages) == <<index = 1, index = total_pages>>

\* Pagination.edit_page with self.index already set to index: get_page does
\* not suspend, so the callback runs to the await of edit_message in one
\* piece; the message, with the flags of the buttons as they are then,
\* reaches the client later
edit_page(index) ==
    LET got == get_page(index, pg_n)
    IN  /\ pg_index' = index
        /\ pg_gets' = Append(pg_gets, index)
        /\ IF got.raised # ""
           THEN /\ pg_exc' = Append(pg_exc, got.raised)
                /\ UNCHANGED <<pg_total_pages, pg_disabled, pg_flight>>
           ELSE /\ pg_total_pages' = got.total
                /\ pg_disabled' = update_buttons(index, got.total)
                /\ pg_flight' = Append(pg_flight,
                                       [view |-> TRUE,
                                        disabled |-> pg_disabled'])
                /\ pg_exc' = pg_exc
        /\ UNCHANGED <<pg_n, pg_client, pg_others>>

\* Pagination(inter, get_page) of conj: list_contents has n >= 1 pages
InitPagination ==
    /\ pg_n \in 1..MaxContents
    /\ pg_index = 1
    /\ pg_total_pages = 0
    /\ pg_disabled = <<FALSE, FALSE>>
    /\ pg_flight = <<>>
    /\ pg_client = NoMessage
    /\ pg_gets = <<>>
    /\ pg_exc = <<>>
    /\ PaginationOnly

\* Pagination.navigate
navigate ==
    /\ pg_gets = <<>>
    /\ LET got == get_page(pg_index, pg_n)
       IN  /\ pg_gets' = Append(pg_gets, pg_index)
           /\ pg_total_pages' = got.total
           /\ pg_disabled' = IF got.total > 1
                             THEN update_buttons(pg_index, got.total)
                             ELSE pg_disabled
           /\ pg_flight' = Append(pg_flight,
                                  [view |-> got.total > 1,
                                   disabled |-> pg_disabled'])
    /\ UNCHANGED <<pg_n, pg_index, pg_client, pg_exc, pg_others>>

\* the message of send_message / edit_message reaches the client
Deliver ==
    /\ pg_flight # <<>>
    /\ pg_client' = Head(pg_flight)
    /\ pg_flight' = Tail(pg_flight)
    /\ UNCHANGED <<pg_n, pg_index, pg_total_pages, pg_disabled, pg_gets,
                   pg_exc, pg_others>>

\* the user clicks a button the message shown has enabled
\* Pagination.previous
previous ==
    /\ pg_client.view
    /\ ~pg_client.disabled[1]
    /\ Len(pg_gets) <= MaxClicks
    /\ edit_page(pg_index - 1)

\* Pagination.next
next ==
    /\ pg_client.view
    /\ ~pg_client.disabled[2]
    /\ Len(pg_gets) <= MaxClicks
    /\ edit_page(pg_index + 1)

\* Pagination.end
end ==
    /\ pg_client.view
    /\ Len(pg_gets) <= MaxClicks
    /\ edit_page(IF pg_index <= pg_total_pages \div 2 THEN pg_total_pages
                 ELSE 1)

NextPagination == navigate \/ Deliver \/ previous \/ next \/ end

SpecPagination == InitPagination /\ [][NextPagination]_vars

\* C29: once total_pages >= 1, whatever the clicks and whenever they are
\* handled, self.index is within 1..total_pages and get_page is called
\* with no index outside it.
C29_IndexWithinPages ==
    pg_total_pages >= 1 =>
        /\ pg_index \in 1..pg_total_pages
        /\ \A k \in DOMAIN pg_gets : pg_gets[k] \in 1..pg_total_pages

-----------------------------------------------------------------------------
(* cogs/wordref/wordref.py: try_fetch_entry, row by row *)

\* the rows the scanned pages are built from
ScanRows ==
    { WordRow, EnglishFirstRow, BlankEnglishRow, OtherPartRow, ExampleRow,
      TranslatedRow }

\* the pages of at most MaxRows rows in at most MaxTables tables
ScanPages ==
    { OkPage(tables)
      : tables \in UNION { Cuts(rows, MaxTables)
                           : rows \in StringsUpTo(ScanRows, MaxRows) } }

\* the Wordrefs of searchgr and searchen
ScanWordrefs == { WordrefOf(cmd) : cmd \in { c \in Commands : c.word.some } }

InitScan ==
    /\ sc_self \in ScanWordrefs
    /\ sc_page \in ScanPages
    /\ sc_table = 0
    /\ sc_row = 0
    /\ sc_entry = NoEntry
    /\ ScanOnly

\* try_fetch_entry up to "entry = Entry(...)", when nothing is raised
StartScan ==
    LET accented == fetch_accented_word(sc_page)
        new_url == BASE_URL \o <<"/", "g", "r", "e", "n", "/">>
                   \o accented.word
    IN  /\ sc_table = 0
        /\ accented.raised = ""
        /\ sc_self' = [sc_self EXCEPT !.word = Some(accented.word)]
        /\ sc_entry' = Entry(new_url, Some(accented.word), sc_self.gr_en,
                             sc_self.hide_words,
                             sc_self.min_sentences_shown,
                             sc_self.max_sentences_shown, sc_self.is_random)
        /\ sc_table' = 1
        /\ UNCHANGED <<sc_page, sc_row, sc_others>>

\* one pass of the "for item in ..." loop of try_fetch_word
ScanRow ==
    /\ sc_table \in DOMAIN sc_page.tables
    /\ sc_row < Len(sc_page.tables[sc_table])
    /\ sc_entry' = try_fetch_word_item(sc_page.tables[sc_table][sc_row + 1],
                                       sc_entry)
    /\ sc_row' = sc_row + 1
    /\ UNCHANGED <<sc_self, sc_page, sc_table, sc_others>>

\* try_fetch_sentence_pairs on the table try_fetch_word has gone through,
\* and the next pass of the "for res in ..." loop
ScanPairs ==
    /\ sc_table \in DOMAIN sc_page.tables
    /\ sc_row = Len(sc_page.tables[sc_table])
    /\ sc_entry' \in try_fetch_sentence_pairs(sc_page.tables[sc_table],
                                              sc_entry, sc_self.gr_en,
                                              sc_self.word)
    /\ sc_table' = sc_table + 1
    /\ sc_row' = 0
    /\ UNCHANGED <<sc_self, sc_page, sc_others>>

NextScan == StartScan \/ ScanRow \/ ScanPairs

SpecScan == InitScan /\ [][NextScan]_vars

\* the rows try_fetch_word has gone through so far, over all the tables
ScannedRows ==
    LET tables == sc_page.tables
        before == IF sc_table = 0 THEN 0
                  ELSE IF sc_table > Len(tables) THEN Len(tables)
                  ELSE sc_table - 1
        current == IF sc_table \in DOMAIN tables
                   THEN SubSeq(tables[sc_table], 1, sc_row) ELSE <<>>
    IN  Concat([t \in 1..before |-> tables[t]]) \o current

\* the English side of a row, stripped
EnglishSide(item) ==
    Strip(IF is_english(CellText(item.FrWrd)) THEN CellText(item.FrWrd)
          ELSE CellText(item.ToWrd))

\* the rows with both word cells and an English text that is not blank
EnglishRows(rows) ==
    SelectSeq(rows, LAMBDA item : /\ item.FrWrd.present
                                  /\ item.ToWrd.present
                                  /\ EnglishSide(item) # <<>>)

\* en_word is not set to a word before a row with an English text is
\* scanned, and is that text afterwards
EnWordIsFirstEnglishText ==
    IF EnglishRows(ScannedRows) = <<>> THEN ~Truthy(sc_entry.en_word)
    ELSE sc_entry.en_word = Some(EnglishSide(EnglishRows(ScannedRows)[1]))

\* a step leaves a non-empty en_word and a set gr_pos as they are, and takes
\* nothing out of the synonym sets
KeepsWordAndPos ==
    /\ Truthy(sc_entry.en_word) => sc_entry'.en_word = sc_entry.en_word
    /\ sc_entry.gr_pos.some => sc_entry'.gr_pos = sc_entry.gr_pos
    /\ sc_entry.gr_synonyms \subseteq sc_entry'.gr_synonyms
    /\ sc_entry.en_synonyms \subseteq sc_entry'.en_synonyms

\* C30: while try_fetch_entry scans the rows, entry.en_word gets a non-empty
\* value at most once, the stripped English-side text of the first row with
\* both word cells and a non-empty English text, and entry.gr_pos is set at
\* most once; later rows and later tables leave both as they are and only
\* add to the synonym sets.
C30_WordAndPosSetOnce ==
    /\ []EnWordIsFirstEnglishText
    /\ [][KeepsWordAndPos]_vars

\* two rows with different English texts and different parts of speech have
\* been scanned, the second in a later table
C30_Witness ==
    /\ sc_table = 2
    /\ Len(EnglishRows(ScannedRows)) >= 2
    /\ EnglishSide(EnglishRows(ScannedRows)[1])
         # EnglishSide(EnglishRows(ScannedRows)[2])
    /\ sc_entry.gr_pos.some
    /\ sc_row >= 1
    /\ sc_page.tables[2][sc_row] = OtherPartRow

-----------------------------------------------------------------------------
(* cogs/wordref/entry.py: Entry.get_embed applied to a fetched entry *)

\* pages with two examples, the first translated without the headword and
\* the second with it, the rows of the two apart or not, and pages with a
\* translation row of annotations only
RenderPages ==
    { OkPage(<< <<WordRow, ExampleRow, OtherTranslatedRow, EmptyRow,
                  LongExampleRow, TranslatedRow>> >>),
      OkPage(<< <<WordRow, ExampleRow, OtherTranslatedRow, LongExampleRow,
                  TranslatedRow>> >>),
      OkPage(<< <<WordRow, AnnotationRow, SpacedExampleRow,
                  TranslatedRow>> >>),
      OkPage(<< <<WordRow, AnnotationRow, ExampleRow, TranslatedRow>> >>) }

\* the entries get_embed is called on
RenderEntries ==
    FetchedEntries
    \cup UNION { UNION { { o.entry
                          : o \in { x \in try_fetch_entry(WordrefOf(cmd),
                                                          page)
                                    : x.raised = "" } }
                        : page \in RenderPages }
                : cmd \in Commands }

InitRender ==
    /\ rd_entry \in RenderEntries
    /\ rd_out = NoRender
    /\ RenderOnly

\* embed = entry.get_embed()
CallGetEmbed ==
    /\ ~rd_out.called
    /\ \E o \in get_embed(rd_entry) :
          rd_out' = [called |-> TRUE, raised |-> o.raised,
                     entry |-> o.entry, embed |-> o.embed]
    /\ UNCHANGED <<rd_entry, rd_others>>

NextRender == CallGetEmbed

SpecRender == InitRender /\ [][NextRender]_vars

\* a text without the emphasis and the spoiler markers
Plain(s) == SelectSeq(s, LAMBDA c : c \notin {"*", "|"})

\* the lines of the description rendered: description.split("\n")
RenderedLines ==
    LET d == rd_out.embed.description
        breaks == { i \in DOMAIN d : d[i] = "LF" }
        break(k) == CHOOSE i \in breaks :
                        Cardinality({ j \in breaks : j < i }) = k - 1
        n == Cardinality(breaks) + 1
    IN  [k \in 1..n |->
            SubSeq(d, IF k = 1 THEN 1 ELSE break(k - 1) + 1,
                      IF k = n THEN Len(d) ELSE break(k) - 1)]

\* the sentence pairs the description rendered shows, in the order shown
RenderedPairs ==
    LET lines == RenderedLines
        n == IF Len(lines) <= 2 THEN 0 ELSE (Len(lines) - 3) \div 2
    IN  [i \in 1..n |-> <<Plain(Drop(lines[2 * i + 1], 5)),
                          Plain(Drop(lines[2 * i + 2], 5))>>]

\* the stored list as get_embed reads it: sides exchanged when gr_en is false
StoredPairs ==
    IF rd_entry.gr_en THEN rd_entry.sentences
    ELSE SwappedPairs(rd_entry.sentences)

\* the first n elements of a list
FirstOf(pairs, n) == SubSeq(pairs, 1, IF Len(pairs) <= n THEN Len(pairs) ELSE n)

\* the word the sort looks for in the first sentence of a pair: gr_word, or
\* with gr_en false what en_word holds after the swap
SortWord == rd_entry.gr_word.val

\* the pairs whose first sentence holds the word, then the others, each
\* group in the order of the list
WordPairsFirst(pairs, word) ==
    SelectSeq(pairs, LAMBDA pair : IsSubstr(word, pair[1]))
    \o SelectSeq(pairs, LAMBDA pair : ~IsSubstr(word, pair[1]))

\* C21 as stated: the message shows at most max_sentences_shown pairs, the
\* first pairs of the stored list in stored order, nothing sorted before the
\* selection.
C21_FirstPairsOfStoredListShown ==
    (rd_out.called /\ rd_out.embed.some) =>
        /\ Len(RenderedPairs) <= rd_entry.max_sentences_shown
        /\ RenderedPairs = FirstOf(StoredPairs, rd_entry.max_sentences_shown)

\* C21 amended: the message shows at most max_sentences_shown pairs, the
\* first pairs of the stored list after a stable sort that moves the pairs
\* whose first sentence contains the Greek headword to the front.
C21_FirstPairsOfSortedListShown ==
    (rd_out.called /\ rd_out.embed.some) =>
        /\ Len(RenderedPairs) <= rd_entry.max_sentences_shown
        /\ RenderedPairs = FirstOf(WordPairsFirst(StoredPairs, SortWord),
                                   rd_entry.max_sentences_shown)

\* an entry with more pairs than are shown was rendered, and the pairs shown
\* are not the first pairs of the stored list
C21_Witness ==
    /\ rd_out.called
    /\ rd_out.embed.some
    /\ Len(rd_entry.sentences) > rd_entry.max_sentences_shown
    /\ RenderedPairs # FirstOf(StoredPairs, rd_entry.max_sentences_shown)

\* C23: no call of highlight_synonyms made for a fetched entry reaches
\* get_delta with two words that are both empty after normalization: the
\* rendering never ends in the division by zero.
C23_NoDivisionByZeroInHighlight ==
    rd_out.called => rd_out.raised # "ZeroDivisionError"

\* the pairs get_embed shows, before the highlighting
PairsToShow ==
    FirstOf(WordPairsFirst(StoredPairs, SortWord),
            rd_entry.max_sentences_shown)

\* the synonyms in the language of the first and of the second sentence of
\* the pairs shown: Greek then English, the other way round when gr_en is
\* false
FirstSideSynonyms ==
    IF rd_entry.gr_en THEN rd_entry.gr_synonyms ELSE rd_entry.en_synonyms

SecondSideSynonyms ==
    IF rd_entry.gr_en THEN rd_entry.en_synonyms ELSE rd_entry.gr_synonyms

\* the texts highlight_synonyms can return
Highlighted(sentence, synonyms) ==
    { h.value : h \in { x \in highlight_synonyms(sentence, synonyms)
                        : x.raised = "" } }

\* C27: in both directions every sentence shown is highlighted against the
\* synonyms of its own language: the first sentence of a pair against the
\* synonyms of the language of the first sentences, the second against the
\* synonyms of the other.
C27_SentencesHighlightedInOwnLanguage ==
    (rd_out.called /\ rd_out.embed.some) =>
        LET sep == IF rd_entry.hide_words THEN <<"|", "|">> ELSE <<>>
        IN  \A i \in DOMAIN PairsToShow :
                /\ Drop(RenderedLines[2 * i + 1], 5)
                       \in Highlighted(PairsToShow[i][1], FirstSideSynonyms)
                /\ \E h \in Highlighted(PairsToShow[i][2],
                                        SecondSideSynonyms) :
                       Drop(RenderedLines[2 * i + 2], 5) = sep \o h \o sep

====
